---- MODULE Spec2Model ----
(***************************************************************************)
(* Drift escalation engine of wg_drift: the per-task escalation state      *)
(* machine (state.py), the event log cursor (events.py), the task store    *)
(* adapter (workgraph.py) and the command loops of cli.py (redirect,       *)
(* check, scan, watch, monitor) that run as independent processes and      *)
(* coordinate through the state file, its lock file and the event log.     *)
(***************************************************************************)
EXTENDS Integers, Sequences, FiniteSets, TLC

\* ------------------------------------------------------------------------
\* Bounds of the model
\* ------------------------------------------------------------------------
MaxCalls == 4       \* calls of update_task_state / mark_pit_stop_created
MaxPsa == 3         \* largest pit_stop_after passed to update_task_state

\* ------------------------------------------------------------------------
\* Values
\* ------------------------------------------------------------------------
Tasks == {"t1", "t2"}
Scores == {"green", "yellow", "red"}
NoScore == "none"   \* the key "score" is absent from a task entry
NoStreak == -1      \* the key "streak" is absent from a task entry

\* Finding kinds in the order Python's sorted() puts them.
KindOrder == <<"hardening_in_core", "missing_contract", "scope_drift">>

RECURSIVE SortedKinds(_, _)
SortedKinds(S, i) ==
    IF i > Len(KindOrder) THEN <<>>
    ELSE IF KindOrder[i] \in S THEN <<KindOrder[i]>> \o SortedKinds(S, i + 1)
    ELSE SortedKinds(S, i + 1)

\* kinds = sorted({str(f.get("kind")) for f in report.get("findings", [])})
KindsOf(findings) == SortedKinds({findings[i] : i \in 1..Len(findings)}, 1)

\* load_state_unlocked's default: no tasks, cursor 0
DefaultState == [tasks |-> <<>>, event_cursor |-> 0]

\* ------------------------------------------------------------------------
\* State
\* ------------------------------------------------------------------------
VARIABLES
    uState,     \* the state dict the calls mutate
    uCall,      \* the last call: op, task_id, score, kinds, pit_stop_after
    uUpd,       \* the TaskStateUpdate returned by the last update_task_state
    uCalls,     \* number of calls made
    uPhase,     \* per task: "none" | "run" | "closed" | "other" (see UnitPhase)
    uN,         \* per task: the pit_stop_after of its calls so far
    uRun,       \* per task: number of calls of its non-green run from scratch
    uRearmed    \* per task: latched by a mark, then evaluated green

uvars == <<uState, uCall, uUpd, uCalls, uPhase, uN, uRun, uRearmed>>

VARIABLES
    contract,   \* per task: the raw contract table in its description
    graph,      \* derived task ids present in the task store
    addCalls,   \* per derived id: create requests (wg add) the store accepted
    log,        \* events.jsonl: the appended drift reports
    stateFile,  \* state.json
    lock,       \* holder of the flock on state.lock, or NoProc
    pc,         \* per process: position in its command
    cmd,        \* per process: command name and flags
    wgSnap,     \* per process: derived ids in its in-memory wg.tasks
    st,         \* per process: the state dict yielded by locked_state
    loaded,     \* per process: that state as it was loaded
    work,       \* per process: the reports of the current guarded iteration
    pos,        \* per process: index in work of the next report
    newCursor,  \* per process: new_cursor returned by read_events_since
    evals,      \* reports computed by check, scan and watch so far
    starts,     \* commands started so far
    faults,     \* task-store command failures so far
    replays,    \* redirect runs started with --from-start so far
    applied,    \* per log entry: times update_task_state was applied to it
    episodePits,\* per task: pit-stop create requests since its last green
    episodeDue, \* per task: evaluations with pit_stop_due since its last green
    lastSave    \* what the last region exit persisted

ovars == <<contract, graph, addCalls, log, stateFile, lock, pc, cmd, wgSnap, st,
           loaded, work, pos, newCursor, evals, starts, faults, replays, applied,
           episodePits, episodeDue, lastSave>>

VARIABLES
    eLog,       \* events.jsonl as a sequence of lines
    eExists,    \* events.jsonl exists
    eCursor,    \* the event_cursor persisted in state.json
    ePc,        \* position of the single consumer
    eFromStart, \* the consumer's from_start flag
    eOffset,    \* offset passed to the last read_events_since
    eEvents,    \* events returned by the last read_events_since
    eNewCursor, \* new_offset returned by the last read_events_since
    eDelivered, \* line positions of the entries the consumer processed, in order
    eTicks,     \* reads made so far
    eAppends,   \* lines appended so far
    eTruncated, \* the log was truncated
    eReplayed,  \* a consumer was started with --from-start
    eFailed,    \* a consumer iteration raised
    eRestarted  \* the last read started from zero: replay or cursor beyond the size

lvars == <<eLog, eExists, eCursor, ePc, eFromStart, eOffset, eEvents, eNewCursor,
           eDelivered, eTicks, eAppends, eTruncated, eReplayed, eFailed, eRestarted>>

VARIABLES
    files,      \* the files state.json and state.tmp: version and chunks written
    fLock,      \* holder of the flock on state.lock, or NoProc
    fPc,        \* per writer: position in locked_state / save_state_unlocked
    fBase,      \* per writer: version of the state it loaded
    fSeen,      \* what the last load_state read from state.json
    fSaves      \* saves started so far

fvars == <<files, fLock, fPc, fBase, fSeen, fSaves>>

VARIABLES
    gPath,      \* the path given to match_path, as its segments
    gPattern,   \* the pattern given to match_path, as its segments
    gResult,    \* what match_path returned
    gPc         \* "call" before the call, "returned" after it

gvars == <<gPath, gPattern, gResult, gPc>>

VARIABLES
    cText,      \* the description given to replace_contract_block, as its lines
    cRaw,       \* the raw contract table given to it
    cOut,       \* what replace_contract_block returned, or that it raised
    cParsed,    \* parse_contract(extract_contract(...)) of the returned text
    cPc         \* "call" before the call, "done" after it

cvars == <<cText, cRaw, cOut, cParsed, cPc>>

VARIABLES
    rGraph,     \* the lines of graph.jsonl
    rStatuses,  \* the status set every run is given
    rTrace      \* per run of rewrite_graph_with_contracts: apply, the updated
                \* ids it returned, the file before it and after it

rvars == <<rGraph, rStatuses, rTrace>>

VARIABLES
    dContract,      \* the contract given to compute_drift, or NoContract
    dDescription,   \* the task description given to it
    dChanges,       \* the working changes given to it, or NoChanges
    dReport,        \* the report it returned
    dSupplied,      \* a list of findings with any severities
    dSuppliedScore, \* the score the score rule gives that list
    dPc             \* per call, "call" before it and "done" after it

dvars == <<dContract, dDescription, dChanges, dReport, dSupplied, dSuppliedScore, dPc>>

VARIABLES
    sFile,      \* state.json: what it holds, and the state dict if an object
    sLog,       \* events.jsonl as a sequence of lines
    sPc,        \* position of the process
    sCmd,       \* its command
    sState,     \* the state dict yielded by locked_state
    sLoaded,    \* that state as it was loaded
    sFromLoss,  \* the last load found no JSON object
    sOffset,    \* offset passed to the last read_events_since
    sEvents,    \* reports of the current iteration
    sNewCursor, \* new_offset returned by the last read_events_since
    sFailed,    \* a load raised
    sRegions,   \* commands and ticks started so far
    sLosses,    \* times the state file was lost so far
    sLostState  \* the state the file held when it was lost

svars == <<sFile, sLog, sPc, sCmd, sState, sLoaded, sFromLoss, sOffset, sEvents,
           sNewCursor, sFailed, sRegions, sLosses, sLostState>>

\* The variables of the pure functions and of the state file loss.
yvars == <<cvars, rvars, dvars, svars>>

\* The variables of the component specifications.
xvars == <<lvars, fvars, gvars, yvars>>

\* What the event log actions leave alone.
nonLog == <<uvars, ovars, fvars, gvars, yvars>>

\* What the state file actions leave alone.
nonFile == <<uvars, ovars, lvars, gvars, yvars>>

\* What the glob matcher leaves alone.
nonGlob == <<uvars, ovars, lvars, fvars, yvars>>

\* What the contract codec leaves alone.
nonCodec == <<uvars, ovars, lvars, fvars, gvars, rvars, dvars, svars>>

\* What the graph rewrite leaves alone.
nonRewrite == <<uvars, ovars, lvars, fvars, gvars, cvars, dvars, svars>>

\* What the drift engine leaves alone.
nonDrift == <<uvars, ovars, lvars, fvars, gvars, cvars, rvars, svars>>

\* What the process of the state file loss leaves alone.
nonLoss == <<uvars, ovars, lvars, fvars, gvars, cvars, rvars, dvars>>

vars == <<uvars, ovars, xvars>>

\* ------------------------------------------------------------------------
\* state.py: update_task_state, mark_pit_stop_created
\* ------------------------------------------------------------------------
HasEntry(state, task_id) == task_id \in DOMAIN state.tasks

\* prev_score = str(prev.get("score") or "green")
PrevScore(state, task_id) ==
    IF HasEntry(state, task_id) /\ state.tasks[task_id].score # NoScore
    THEN state.tasks[task_id].score ELSE "green"

\* prev_streak = int(prev.get("streak") or 0)
PrevStreak(state, task_id) ==
    IF HasEntry(state, task_id) /\ state.tasks[task_id].streak # NoStreak
    THEN state.tasks[task_id].streak ELSE 0

CarryResetOnGreen(state, task_id, score) ==
    IF score = "green" THEN FALSE
    ELSE IF HasEntry(state, task_id) THEN state.tasks[task_id].pit_stop_created
    ELSE FALSE

\* pit_stop_created = bool(prev.get("pit_stop_created", False))
PrevPitStopCreated(state, task_id, score) ==
    IF HasEntry(state, task_id) THEN state.tasks[task_id].pit_stop_created
    ELSE FALSE

StreakAlwaysOne(drifting, prev_drifting, prev_streak) ==
    IF drifting THEN 1 ELSE 0

StreakKeptOnGreen(drifting, prev_drifting, prev_streak) ==
    IF drifting /\ prev_drifting THEN prev_streak + 1
    ELSE IF drifting THEN 1
    ELSE prev_streak

\* the if/elif/else that computes streak
NextStreak(drifting, prev_drifting, prev_streak) ==
    IF drifting /\ prev_drifting THEN prev_streak + 1
    ELSE IF drifting THEN 1
    ELSE 0

\* pit_stop_due = drifting and (streak >= pit_stop_after) and (not pit_stop_created)
PitStopDue(drifting, streak, pit_stop_after, pit_stop_created) ==
    drifting /\ streak >= pit_stop_after /\ ~pit_stop_created

DictOnly(d, k, v) == [x \in {k} |-> v]

\* Put value v at key k of the dict d (a function over its keys).
DictPut(d, k, v) == [x \in (DOMAIN d) \cup {k} |-> IF x = k THEN v ELSE d[x]]

StoreEntryWhenDue(tasks, task_id, entry, pit_stop_due) ==
    IF pit_stop_due \/ task_id \notin DOMAIN tasks THEN DictPut(tasks, task_id, entry)
    ELSE tasks

\* tasks[task_id] = {...}, whatever pit_stop_due is
StoreEntry(tasks, task_id, entry, pit_stop_due) == DictPut(tasks, task_id, entry)

\* update_task_state: the new state and the TaskStateUpdate it returns
UpdateTaskState(state, task_id, score, kinds, pit_stop_after) ==
    LET prev_score == PrevScore(state, task_id)
        prev_streak == PrevStreak(state, task_id)
        pit_stop_created == PrevPitStopCreated(state, task_id, score)
        drifting == score # "green" /\ pit_stop_after > 0
        prev_drifting == prev_score # "green" /\ pit_stop_after > 0
        streak == NextStreak(drifting, prev_drifting, prev_streak)
        pit_stop_due == PitStopDue(drifting, streak, pit_stop_after, pit_stop_created)
        entry == [score |-> score, kinds |-> kinds, streak |-> streak,
                  pit_stop_created |-> pit_stop_created]
    IN  [state |-> [state EXCEPT !.tasks = StoreEntry(state.tasks, task_id, entry, pit_stop_due)],
         upd |-> [task_id |-> task_id, streak |-> streak,
                  pit_stop_due |-> pit_stop_due,
                  pit_stop_created |-> pit_stop_created]]

MarkNothing(state, task_id) == state

\* mark_pit_stop_created: sets the latch, keeps the entry's other keys
MarkPitStopCreated(state, task_id) ==
    LET prev == IF HasEntry(state, task_id) THEN state.tasks[task_id]
                ELSE [score |-> NoScore, kinds |-> <<>>, streak |-> NoStreak,
                      pit_stop_created |-> FALSE]
    IN  [state EXCEPT !.tasks =
            DictPut(state.tasks, task_id, [prev EXCEPT !.pit_stop_created = TRUE])]

\* ------------------------------------------------------------------------
\* The escalation state machine driven call by call (SpecUnit)
\* ------------------------------------------------------------------------

UnitKinds == {<<>>, <<"scope_drift">>}
NoCall == [op |-> "none", task_id |-> "t1", score |-> "green", kinds |-> <<>>,
           pit_stop_after |-> 0]
NoUpd == [task_id |-> "t1", streak |-> 0, pit_stop_due |-> FALSE,
          pit_stop_created |-> FALSE]

UnitInit ==
    /\ uState = DefaultState
    /\ uCall = NoCall
    /\ uUpd = NoUpd
    /\ uCalls = 0
    /\ uPhase = [t \in Tasks |-> "none"]
    /\ uN = [t \in Tasks |-> 0]
    /\ uRun = [t \in Tasks |-> 0]
    /\ uRearmed = [t \in Tasks |-> FALSE]

\* The calls start from a state without tasks, whatever its cursor.
UnitCallInit ==
    /\ uState \in {[DefaultState EXCEPT !.event_cursor = c] : c \in {0, 1}}
    /\ uCall = NoCall
    /\ uUpd = NoUpd
    /\ uCalls = 0
    /\ uPhase = [t \in Tasks |-> "none"]
    /\ uN = [t \in Tasks |-> 0]
    /\ uRun = [t \in Tasks |-> 0]
    /\ uRearmed = [t \in Tasks |-> FALSE]

\* History of a task's calls: "run" while every call so far was a non-green
\* update with one positive pit_stop_after, "closed" when one green update
\* followed such a run, "other" after anything else.
UnitPhase(t, score, psa) ==
    IF score # "green" /\ psa > 0 /\ (uPhase[t] = "none" \/ (uPhase[t] = "run" /\ uN[t] = psa))
    THEN "run"
    ELSE IF score = "green" /\ uPhase[t] = "run" THEN "closed"
    ELSE "other"

UnitUpdate(t, score, kinds, psa) ==
    /\ uCalls < MaxCalls
    /\ LET r == UpdateTaskState(uState, t, score, kinds, psa) IN
        /\ uState' = r.state
        /\ uUpd' = r.upd
    /\ uCall' = [op |-> "update", task_id |-> t, score |-> score, kinds |-> kinds,
                 pit_stop_after |-> psa]
    /\ uCalls' = uCalls + 1
    /\ uPhase' = [uPhase EXCEPT ![t] = UnitPhase(t, score, psa)]
    /\ uN' = [uN EXCEPT ![t] = psa]
    /\ uRun' = [uRun EXCEPT ![t] = IF UnitPhase(t, score, psa) = "run" THEN @ + 1 ELSE @]
    /\ uRearmed' = [uRearmed EXCEPT ![t] =
                        @ \/ (score = "green" /\ HasEntry(uState, t)
                                /\ uState.tasks[t].pit_stop_created)]
    /\ UNCHANGED <<ovars, xvars>>

UnitMark(t) ==
    /\ uCalls < MaxCalls
    /\ uState' = MarkPitStopCreated(uState, t)
    /\ uCall' = [NoCall EXCEPT !.op = "mark", !.task_id = t]
    /\ uCalls' = uCalls + 1
    /\ uPhase' = [uPhase EXCEPT ![t] = "other"]
    /\ UNCHANGED <<uUpd, uN, uRun, uRearmed>>
    /\ UNCHANGED <<ovars, xvars>>

UnitNext ==
    \/ \E t \in Tasks, score \in Scores, kinds \in UnitKinds, psa \in 0..MaxPsa :
            UnitUpdate(t, score, kinds, psa)
    \/ \E t \in Tasks : UnitMark(t)


\* ------------------------------------------------------------------------
\* The command loops as concurrent processes (Spec)
\* ------------------------------------------------------------------------
MaxLog == 2         \* entries the monitor appends to the event log
MaxEvals == 1       \* reports computed directly by check, scan and watch
MaxStarts == 2      \* commands started (each failure ends its command)

Procs == {"p1", "p2"}
NoProc == "none"
TaskOrder == <<"t1">>           \* the in-progress tasks, in graph.jsonl order
Tracked == {TaskOrder[i] : i \in 1..Len(TaskOrder)}

\* Findings of a report, in the order compute_drift appends them.
FindingLists == {<<>>, <<"scope_drift">>, <<"scope_drift", "hardening_in_core">>}

\* The raw contract tables of the tasks (mode is "core").
Contracts == {[pit_stop_after |-> 2, auto_followups |-> TRUE],
              [pit_stop_after |-> 0, auto_followups |-> TRUE],
              [pit_stop_after |-> 2, auto_followups |-> FALSE]}

\* compute_drift: every built-in finding has severity "warn"
ScoreOf(findings) == IF Len(findings) > 0 THEN "yellow" ELSE "green"

\* Derived ids of the follow-up tasks
PitId(t) == <<"speedrift-pit", t>>
HardenId(t) == <<"drift-harden", t>>
ScopeId(t) == <<"drift-scope", t>>
LogCall(t) == <<"wg-log", t>>
DerivedIds == {PitId(t) : t \in Tasks} \cup {HardenId(t) : t \in Tasks}
                \cup {ScopeId(t) : t \in Tasks}


\* The flags every command is run with, as the installed executor guidance
\* gives them: --write-log --create-followups
ArgsWriteLog == TRUE
ArgsCreateFollowups == TRUE

NoCmd == [name |-> "none", write_log |-> FALSE, create_followups |-> FALSE,
          from_start |-> FALSE]
CmdOf(name, fs) == [name |-> name, write_log |-> ArgsWriteLog,
                    create_followups |-> ArgsCreateFollowups, from_start |-> fs]
NoSave == [failed |-> FALSE, partial |-> FALSE]

\* ------------------------------------------------------------------------
\* events.py: read_events_since over byte offsets
\* ------------------------------------------------------------------------
\* A line holds a JSON object, or it is blank, cut short, or JSON of another
\* type; its bytes are those of the report it was written for.
LineForms == {"event", "blank", "garbled", "nondict"}

\* Bytes of the line append_event writes for an event.
LineLen(ev) == 1 + Len(ev.findings)

RECURSIVE OffsetOf(_, _)
\* Byte offset at which line i of the log starts.
OffsetOf(lg, i) == IF i <= 1 THEN 0 ELSE OffsetOf(lg, i - 1) + LineLen(lg[i - 1])

FileSize(lg) == OffsetOf(lg, Len(lg) + 1)

\* json.loads succeeds on the stripped line and yields a dict
WellFormed(ln) == ln.form = "event"

StartOffsetKept(size, offset) == offset

\* if offset > size: offset = 0
StartOffset(size, offset) == IF offset > size THEN 0 ELSE offset

LastLineBeforeMalformed(lg, offset) ==
    LET bad == {i \in 1..Len(lg) : OffsetOf(lg, i) >= offset /\ ~WellFormed(lg[i])}
    IN  IF bad = {} THEN Len(lg)
        ELSE (CHOOSE i \in bad : \A j \in bad : i <= j) - 1

\* The last line the readline loop reads: blank lines and lines that do not
\* parse `continue`, the loop ends when readline returns "".
LastLineRead(lg, offset) == Len(lg)

RECURSIVE LinesAfter(_, _, _)
LinesAfter(lg, i, offset) ==
    IF i > Len(lg) THEN <<>>
    ELSE IF OffsetOf(lg, i) > offset /\ WellFormed(lg[i])
         THEN <<[task_id |-> lg[i].task_id, findings |-> lg[i].findings, idx |-> i]>>
                \o LinesAfter(lg, i + 1, offset)
         ELSE LinesAfter(lg, i + 1, offset)

RECURSIVE LinesFrom(_, _, _)
\* The well-formed lines that start at or after offset, with their position;
\* the rest of a line the offset falls into does not parse.
LinesFrom(lg, i, offset) ==
    IF i > Len(lg) THEN <<>>
    ELSE IF OffsetOf(lg, i) >= offset /\ WellFormed(lg[i])
         THEN <<[task_id |-> lg[i].task_id, findings |-> lg[i].findings, idx |-> i]>>
                \o LinesFrom(lg, i + 1, offset)
         ELSE LinesFrom(lg, i + 1, offset)

ReadExistingRelative(lg, offset) ==
    LET off == StartOffset(FileSize(lg), offset)
    IN  [events |-> LinesFrom(lg, 1, off), new_offset |-> FileSize(lg) - off]

\* read_events_since on a file that exists: (events, f.tell())
ReadExisting(lg, offset) ==
    LET off == StartOffset(FileSize(lg), offset)
        last == LastLineRead(lg, off)
    IN  [events |-> LinesFrom(SubSeq(lg, 1, last), 1, off),
         new_offset |-> OffsetOf(lg, last + 1)]

\* read_events_since: (events, new_offset); ([], offset) when stat() raises
\* FileNotFoundError
ReadEventsSince(exists, lg, offset) ==
    IF ~exists THEN [events |-> <<>>, new_offset |-> offset]
    ELSE ReadExisting(lg, offset)

\* ------------------------------------------------------------------------
\* cli.py: what one report does inside the guarded region
\* ------------------------------------------------------------------------
\* pit_stop_after = int(contract.get("pit_stop_after") or 3)
PitStopAfterOf(c) == IF c.pit_stop_after = 0 THEN 3 ELSE c.pit_stop_after

\* redirect and watch act only on a changed signature or a due pit-stop
Gated(c) == c.name \in {"redirect", "watch"}

\* prev_sig != cur_sig
SigChanged(state, item) ==
    LET prev_kinds == IF HasEntry(state, item.task_id)
                      THEN state.tasks[item.task_id].kinds ELSE <<>>
    IN  <<PrevScore(state, item.task_id), prev_kinds>>
            # <<ScoreOf(item.findings), KindsOf(item.findings)>>

Upd(state, item) ==
    UpdateTaskState(state, item.task_id, ScoreOf(item.findings),
                    KindsOf(item.findings), PitStopAfterOf(contract[item.task_id]))

Acts(c, state, item) ==
    ~Gated(c) \/ SigChanged(state, item) \/ Upd(state, item).upd.pit_stop_due

AutoFollowupsUnchecked(c) == TRUE

\* not (contract.get("auto_followups", True) is False); mode is "core"
AutoFollowups(c) == c.auto_followups # FALSE

RECURSIVE FollowupIds(_, _, _)
\* _maybe_create_followups: the ids it passes to ensure_task, in finding order
FollowupIds(t, findings, i) ==
    IF i > Len(findings) THEN <<>>
    ELSE IF findings[i] = "hardening_in_core"
         THEN <<HardenId(t)>> \o FollowupIds(t, findings, i + 1)
    ELSE IF findings[i] = "scope_drift"
         THEN <<ScopeId(t)>> \o FollowupIds(t, findings, i + 1)
    ELSE FollowupIds(t, findings, i + 1)

\* _maybe_create_pit_stop is called and returns the pit-stop id
PitStopReturned(c, state, item) ==
    /\ c.create_followups /\ Acts(c, state, item)
    /\ Upd(state, item).upd.pit_stop_due
    /\ AutoFollowups(contract[item.task_id])

\* Ids handed to Workgraph.ensure_task for the report, in call order.
EnsureCalls(c, state, item) ==
    IF c.create_followups /\ Acts(c, state, item) /\ AutoFollowups(contract[item.task_id])
    THEN FollowupIds(item.task_id, item.findings, 1)
            \o (IF PitStopReturned(c, state, item) THEN <<PitId(item.task_id)>> ELSE <<>>)
    ELSE <<>>

\* Workgraph.ensure_task runs `wg add` unless the id is in wg.tasks
EnsureAdds(snap, id) == id \notin snap

\* The task-store commands the report runs, in order.
StoreCalls(c, state, snap, item) ==
    LET NotKnown(id) == EnsureAdds(snap, id)
    IN  (IF c.write_log /\ Acts(c, state, item) THEN <<LogCall(item.task_id)>> ELSE <<>>)
            \o SelectSeq(EnsureCalls(c, state, item), NotKnown)

\* The state after the report when no command fails.
ReportEffect(c, state, item) ==
    IF PitStopReturned(c, state, item)
    THEN MarkPitStopCreated(Upd(state, item).state, item.task_id)
    ELSE Upd(state, item).state

RECURSIVE ApplyAll(_, _, _, _)
ApplyAll(c, state, items, i) ==
    IF i > Len(items) THEN state
    ELSE ApplyAll(c, ReportEffect(c, state, items[i]), items, i + 1)

\* The state the iteration of process p intends to persist.
FullState(p) ==
    LET s == ApplyAll(cmd[p], loaded[p], work[p], 1)
    IN  IF cmd[p].name = "redirect" THEN [s EXCEPT !.event_cursor = newCursor[p]] ELSE s

\* What a region exit persisted: after a failure or not, and whether the
\* saved state is neither the loaded state nor the intended state.
Saved(failed, before, saved, full) ==
    [failed |-> failed, partial |-> saved # before /\ saved # full]

\* ------------------------------------------------------------------------
\* Processes
\* ------------------------------------------------------------------------
OInit ==
    /\ contract \in [Tracked -> Contracts]
    /\ graph = {}
    /\ addCalls = [id \in DerivedIds |-> 0]
    /\ log = <<>>
    /\ stateFile = DefaultState
    /\ lock = NoProc
    /\ pc = [p \in Procs |-> "idle"]
    /\ cmd = [p \in Procs |-> NoCmd]
    /\ wgSnap = [p \in Procs |-> {}]
    /\ st = [p \in Procs |-> DefaultState]
    /\ loaded = [p \in Procs |-> DefaultState]
    /\ work = [p \in Procs |-> <<>>]
    /\ pos = [p \in Procs |-> 1]
    /\ newCursor = [p \in Procs |-> 0]
    /\ evals = 0
    /\ starts = 0
    /\ faults = FALSE
    /\ replays = FALSE
    /\ applied = [i \in 1..MaxLog |-> 0]
    /\ episodePits = [t \in Tracked |-> 0]
    /\ episodeDue = [t \in Tracked |-> 0]
    /\ lastSave = NoSave

\* The process-local variables of a process that is not running.
Forget(p) ==
    /\ cmd' = [cmd EXCEPT ![p] = NoCmd]
    /\ wgSnap' = [wgSnap EXCEPT ![p] = {}]
    /\ st' = [st EXCEPT ![p] = DefaultState]
    /\ loaded' = [loaded EXCEPT ![p] = DefaultState]
    /\ work' = [work EXCEPT ![p] = <<>>]
    /\ pos' = [pos EXCEPT ![p] = 1]
    /\ newCursor' = [newCursor EXCEPT ![p] = 0]

\* monitor: append_event(wg_dir, {"kind": "drift_report", **report})
MonitorAppend(t, findings) ==
    /\ Len(log) < MaxLog
    /\ log' = Append(log, [task_id |-> t, findings |-> findings, form |-> "event"])
    /\ UNCHANGED <<starts, contract, graph, addCalls, stateFile, lock, pc, cmd, wgSnap, st,
                   loaded, work, pos, newCursor, evals, faults, replays, applied,
                   episodePits, episodeDue, lastSave>>
    /\ UNCHANGED <<uvars, xvars>>

\* main: a redirect or watch process starts and loads the graph
StartLoop(p, name, fs) ==
    /\ pc[p] = "idle"
    /\ starts < MaxStarts
    /\ starts' = starts + 1
    /\ name \in {"redirect", "watch"}
    /\ name = "watch" => ~fs
    /\ replays' = (replays \/ fs)
    /\ cmd' = [cmd EXCEPT ![p] = CmdOf(name, fs)]
    /\ wgSnap' = [wgSnap EXCEPT ![p] = graph]
    /\ pc' = [pc EXCEPT ![p] = IF name = "redirect" THEN "lock1" ELSE "lock"]
    /\ name = "watch" => evals + Len(TaskOrder) <= MaxEvals
    /\ evals' = IF name = "watch" THEN evals + Len(TaskOrder) ELSE evals
    /\ UNCHANGED <<contract, graph, addCalls, log, stateFile, lock, st,
                   loaded, work, pos, newCursor, faults, applied,
                   episodePits, episodeDue, lastSave>>
    /\ UNCHANGED <<uvars, xvars>>

\* main: check loads the graph and computes its report before locking
StartCheck(p, t, findings) ==
    /\ pc[p] = "idle"
    /\ starts < MaxStarts
    /\ starts' = starts + 1
    /\ evals < MaxEvals
    /\ evals' = evals + 1
    /\ cmd' = [cmd EXCEPT ![p] = CmdOf("check", FALSE)]
    /\ wgSnap' = [wgSnap EXCEPT ![p] = graph]
    /\ work' = [work EXCEPT ![p] = <<[task_id |-> t, findings |-> findings, idx |-> 0]>>]
    /\ pc' = [pc EXCEPT ![p] = "lock"]
    /\ UNCHANGED <<contract, graph, addCalls, log, stateFile, lock, st, loaded, pos,
                   newCursor, faults, replays, applied, episodePits, episodeDue,
                   lastSave>>
    /\ UNCHANGED <<uvars, xvars>>

\* main: scan loads the graph; its reports are computed inside the region
StartScan(p) ==
    /\ pc[p] = "idle"
    /\ starts < MaxStarts
    /\ starts' = starts + 1
    /\ evals + Len(TaskOrder) <= MaxEvals
    /\ evals' = evals + Len(TaskOrder)
    /\ cmd' = [cmd EXCEPT ![p] = CmdOf("scan", FALSE)]
    /\ wgSnap' = [wgSnap EXCEPT ![p] = graph]
    /\ pc' = [pc EXCEPT ![p] = "lock"]
    /\ UNCHANGED <<contract, graph, addCalls, log, stateFile, lock, st, loaded, work,
                   pos, newCursor, faults, replays, applied, episodePits,
                   episodeDue, lastSave>>
    /\ UNCHANGED <<uvars, xvars>>

\* top of the redirect and watch loops after a sleep: load_workgraph
LoadWorkgraph(p) ==
    /\ pc[p] = "load"
    /\ wgSnap' = [wgSnap EXCEPT ![p] = graph]
    /\ pc' = [pc EXCEPT ![p] = IF cmd[p].name = "redirect" THEN "lock1" ELSE "lock"]
    /\ cmd[p].name = "watch" => evals + Len(TaskOrder) <= MaxEvals
    /\ evals' = IF cmd[p].name = "watch" THEN evals + Len(TaskOrder) ELSE evals
    /\ UNCHANGED <<starts, contract, graph, addCalls, log, stateFile, lock, cmd, st, loaded,
                   work, pos, newCursor, faults, replays, applied, episodePits,
                   episodeDue, lastSave>>
    /\ UNCHANGED <<uvars, xvars>>

\* a loop ends between two ticks: --once returns after its tick, or a
\* KeyboardInterrupt arrives during the sleep
LoopEnd(p) ==
    /\ pc[p] = "load"
    /\ pc' = [pc EXCEPT ![p] = "idle"]
    /\ Forget(p)
    /\ UNCHANGED <<starts, contract, graph, addCalls, log, stateFile, lock, evals, faults,
                   replays, applied, episodePits, episodeDue, lastSave>>
    /\ UNCHANGED <<uvars, xvars>>

ReleasedUnlessRaised(p, raised) == IF raised THEN p ELSE NoProc

\* finally: ... fcntl.flock(lockf.fileno(), fcntl.LOCK_UN), on return and on
\* an exception alike
Released(p, raised) == NoProc

LockTaken(l) == FALSE

\* fcntl.flock(LOCK_EX) blocks while another process holds the lock
LockHeld(l) == l # NoProc

\* redirect, first region: load the state, read the events since the cursor
ReadEnter(p) ==
    /\ pc[p] = "lock1"
    /\ ~LockHeld(lock)
    /\ lock' = p
    /\ LET cursor == IF cmd[p].from_start THEN 0 ELSE stateFile.event_cursor
           r == ReadEventsSince(Len(log) > 0, log, cursor)
       IN  /\ work' = [work EXCEPT ![p] = r.events]
           /\ newCursor' = [newCursor EXCEPT ![p] = r.new_offset]
           /\ st' = [st EXCEPT ![p] = IF Len(r.events) = 0
                                     THEN [stateFile EXCEPT !.event_cursor = cursor]
                                     ELSE stateFile]
    /\ loaded' = [loaded EXCEPT ![p] = stateFile]
    /\ pc' = [pc EXCEPT ![p] = "in1"]
    /\ UNCHANGED <<starts, contract, graph, addCalls, log, stateFile, cmd, wgSnap, pos, evals,
                   faults, replays, applied, episodePits, episodeDue, lastSave>>
    /\ UNCHANGED <<uvars, xvars>>

\* redirect, first region exits: save, unlock; sleep or go on to apply
ReadExit(p) ==
    /\ pc[p] = "in1"
    /\ stateFile' = st[p]
    /\ lock' = Released(p, FALSE)
    /\ lastSave' = Saved(FALSE, loaded[p], st[p], st[p])
    /\ IF Len(work[p]) = 0
       THEN /\ pc' = [pc EXCEPT ![p] = "load"]
            /\ st' = [st EXCEPT ![p] = DefaultState]
            /\ loaded' = [loaded EXCEPT ![p] = DefaultState]
            /\ newCursor' = [newCursor EXCEPT ![p] = 0]
            /\ UNCHANGED <<cmd, wgSnap, work, pos>>
       ELSE /\ pc' = [pc EXCEPT ![p] = "lock"]
            /\ cmd' = [cmd EXCEPT ![p].from_start = FALSE]
            /\ st' = [st EXCEPT ![p] = DefaultState]
            /\ loaded' = [loaded EXCEPT ![p] = DefaultState]
            /\ UNCHANGED <<wgSnap, work, pos, newCursor>>
    /\ UNCHANGED <<starts, contract, graph, addCalls, log, evals, faults, replays, applied,
                   episodePits, episodeDue>>
    /\ UNCHANGED <<uvars, xvars>>

\* One report per in-progress task, as _report_for_task computes them.
ReportsOf(f) == [i \in 1..Len(TaskOrder) |->
                    [task_id |-> TaskOrder[i], findings |-> f[TaskOrder[i]], idx |-> 0]]

\* the evaluating region is entered: the state is loaded under the lock
EvalEnter(p) ==
    /\ pc[p] = "lock"
    /\ ~LockHeld(lock)
    /\ lock' = p
    /\ st' = [st EXCEPT ![p] = stateFile]
    /\ loaded' = [loaded EXCEPT ![p] = stateFile]
    /\ pos' = [pos EXCEPT ![p] = 1]
    /\ IF cmd[p].name \in {"scan", "watch"}
       THEN \E f \in [Tracked -> FindingLists] : work' = [work EXCEPT ![p] = ReportsOf(f)]
       ELSE UNCHANGED work
    /\ pc' = [pc EXCEPT ![p] = "body"]
    /\ UNCHANGED <<starts, contract, graph, addCalls, log, stateFile, cmd, wgSnap, newCursor,
                   evals, faults, replays, applied, episodePits, episodeDue, lastSave>>
    /\ UNCHANGED <<uvars, xvars>>

\* Number of entries of the sequence s equal to x.
Count(s, x) == Cardinality({i \in 1..Len(s) : s[i] = x})

\* the loop body for the next report; failAt > 0 is the task-store command
\* (in call order) whose subprocess.check_call raises
ProcessReport(p, failAt) ==
    /\ pc[p] = "body"
    /\ pos[p] <= Len(work[p])
    /\ LET item == work[p][pos[p]]
           t == item.task_id
           calls == StoreCalls(cmd[p], st[p], wgSnap[p], item)
           done == IF failAt = 0 THEN calls ELSE SubSeq(calls, 1, failAt - 1)
           adds == {done[i] : i \in 1..Len(done)} \cap DerivedIds
           due == Upd(st[p], item).upd.pit_stop_due
           green == ScoreOf(item.findings) = "green"
       IN  /\ failAt \in 0..Len(calls)
           /\ faults' = (faults \/ failAt > 0)
           /\ graph' = graph \cup adds
           /\ addCalls' = [id \in DerivedIds |-> addCalls[id] + Count(done, id)]
           /\ wgSnap' = [wgSnap EXCEPT ![p] = @ \cup adds]
           /\ st' = [st EXCEPT ![p] = IF failAt = 0 THEN ReportEffect(cmd[p], @, item)
                                      ELSE Upd(@, item).state]
           /\ pos' = [pos EXCEPT ![p] = IF failAt = 0 THEN @ + 1 ELSE @]
           /\ pc' = [pc EXCEPT ![p] = IF failAt = 0 THEN "body" ELSE "failing"]
           /\ applied' = [i \in 1..MaxLog |->
                            IF i = item.idx /\ applied[i] < 2 THEN applied[i] + 1
                            ELSE applied[i]]
           /\ episodePits' = [episodePits EXCEPT ![t] =
                                (IF green THEN 0 ELSE @) + Count(done, PitId(t))]
           /\ episodeDue' = [episodeDue EXCEPT ![t] =
                                IF green THEN 0 ELSE IF due THEN @ + 1 ELSE @]
    /\ UNCHANGED <<starts, contract, log, stateFile, lock, cmd, loaded, work, newCursor,
                   evals, replays, lastSave>>
    /\ UNCHANGED <<uvars, xvars>>

\* the region exits after the last report: redirect sets the cursor, the
\* state is saved and the lock released
EvalExit(p) ==
    /\ pc[p] = "body"
    /\ pos[p] > Len(work[p])
    /\ LET final == IF cmd[p].name = "redirect"
                    THEN [st[p] EXCEPT !.event_cursor = newCursor[p]] ELSE st[p]
       IN  /\ stateFile' = final
           /\ lastSave' = Saved(FALSE, loaded[p], final, FullState(p))
    /\ lock' = Released(p, FALSE)
    /\ IF cmd[p].name \in {"check", "scan"}
       THEN /\ pc' = [pc EXCEPT ![p] = "idle"]
            /\ Forget(p)
       ELSE /\ pc' = [pc EXCEPT ![p] = "load"]
            /\ st' = [st EXCEPT ![p] = DefaultState]
            /\ loaded' = [loaded EXCEPT ![p] = DefaultState]
            /\ work' = [work EXCEPT ![p] = <<>>]
            /\ pos' = [pos EXCEPT ![p] = 1]
            /\ newCursor' = [newCursor EXCEPT ![p] = 0]
            /\ UNCHANGED <<cmd, wgSnap>>
    /\ UNCHANGED <<starts, contract, graph, addCalls, log, evals, faults, replays, applied,
                   episodePits, episodeDue>>
    /\ UNCHANGED <<uvars, xvars>>

RestoredOnRaise(p) == loaded[p]

\* finally: save_state_unlocked(wg_dir, state), the dict as the body left it
SavedOnRaise(p) == st[p]

\* the exception leaves the region: locked_state's finally saves the state
\* and unlocks, main prints the error and the process ends
FailExit(p) ==
    /\ pc[p] = "failing"
    /\ stateFile' = SavedOnRaise(p)
    /\ lastSave' = Saved(TRUE, loaded[p], SavedOnRaise(p), FullState(p))
    /\ lock' = Released(p, TRUE)
    /\ pc' = [pc EXCEPT ![p] = "idle"]
    /\ Forget(p)
    /\ UNCHANGED <<starts, contract, graph, addCalls, log, evals, faults, replays, applied,
                   episodePits, episodeDue>>
    /\ UNCHANGED <<uvars, xvars>>

\* ------------------------------------------------------------------------
\* The event log and its single consumer (SpecLog, SpecRead)
\* ------------------------------------------------------------------------
MaxAppends == 3     \* lines appended to the event log
MaxTicks == 3       \* reads of the consumer
MaxLines == 3       \* lines of the file a single read_events_since call is given

MaxOffset == 2 * MaxLines + 1

LogLines == {[task_id |-> "t1", findings |-> <<>>, form |-> "event"],
             [task_id |-> "t1", findings |-> <<"scope_drift">>, form |-> "event"],
             [task_id |-> "t1", findings |-> <<>>, form |-> "blank"],
             [task_id |-> "t1", findings |-> <<"scope_drift">>, form |-> "garbled"],
             [task_id |-> "t1", findings |-> <<>>, form |-> "nondict"]}

Logs == UNION {[1..n -> LogLines] : n \in 0..MaxLines}

\* No log file, no consumer running, cursor 0.
LogInit ==
    /\ eLog = <<>>
    /\ eExists = FALSE
    /\ eCursor = 0
    /\ ePc = "idle"
    /\ eFromStart = FALSE
    /\ eOffset = 0
    /\ eEvents = <<>>
    /\ eNewCursor = 0
    /\ eDelivered = <<>>
    /\ eTicks = 0
    /\ eAppends = 0
    /\ eTruncated = FALSE
    /\ eReplayed = FALSE
    /\ eFailed = FALSE
    /\ eRestarted = FALSE

\* a line is appended: an entry by append_event, or what a writer that was
\* cut short or another tool leaves
LAppend(ln) ==
    /\ eAppends < MaxAppends
    /\ eAppends' = eAppends + 1
    /\ eLog' = Append(eLog, ln)
    /\ eExists' = TRUE
    /\ UNCHANGED <<eCursor, ePc, eFromStart, eOffset, eEvents, eNewCursor, eDelivered,
                   eTicks, eTruncated, eReplayed, eFailed, eRestarted>>
    /\ UNCHANGED nonLog

\* the log is truncated or rotated to its first k lines
LTruncate(k) ==
    /\ eExists /\ ~eTruncated
    /\ k < Len(eLog)
    /\ eLog' = SubSeq(eLog, 1, k)
    /\ eTruncated' = TRUE
    /\ UNCHANGED <<eExists, eCursor, ePc, eFromStart, eOffset, eEvents, eNewCursor,
                   eDelivered, eTicks, eAppends, eReplayed, eFailed, eRestarted>>
    /\ UNCHANGED nonLog

\* main: redirect starts, with or without --from-start
LStart(fs) ==
    /\ ePc = "idle"
    /\ eTicks < MaxTicks
    /\ ePc' = "lock1"
    /\ eFromStart' = fs
    /\ eReplayed' = (eReplayed \/ fs)
    /\ UNCHANGED <<eLog, eExists, eCursor, eOffset, eEvents, eNewCursor, eDelivered,
                   eTicks, eAppends, eTruncated, eFailed, eRestarted>>
    /\ UNCHANGED nonLog

\* redirect, first region: read the events since the cursor; with no events
\* the cursor it read from is persisted and the tick ends
LRead ==
    /\ ePc = "lock1"
    /\ LET cursor == IF eFromStart THEN 0 ELSE eCursor
           r == ReadEventsSince(eExists, eLog, cursor)
       IN  /\ eOffset' = cursor
           /\ eEvents' = r.events
           /\ eNewCursor' = r.new_offset
           /\ eCursor' = IF Len(r.events) = 0 THEN cursor ELSE eCursor
           /\ eFromStart' = IF Len(r.events) = 0 THEN eFromStart ELSE FALSE
           /\ ePc' = IF Len(r.events) = 0 THEN "sleep" ELSE "lock2"
           /\ eRestarted' = (eFromStart \/ (eExists /\ cursor > FileSize(eLog)))
    /\ eTicks' = eTicks + 1
    /\ UNCHANGED <<eLog, eExists, eDelivered, eAppends, eTruncated, eReplayed, eFailed>>
    /\ UNCHANGED nonLog

\* redirect, second region: the events are processed in order and the new
\* cursor persisted; failAt > 0 is the event, one with findings, whose
\* task-store command raises, which ends the process with the cursor as it was
LApply(failAt) ==
    /\ ePc = "lock2"
    /\ failAt \in 0..Len(eEvents)
    /\ failAt > 0 => eEvents[failAt].findings # <<>>
    /\ LET n == IF failAt = 0 THEN Len(eEvents) ELSE failAt
       IN  eDelivered' = eDelivered \o [i \in 1..n |-> eEvents[i].idx]
    /\ eCursor' = IF failAt = 0 THEN eNewCursor ELSE eCursor
    /\ ePc' = IF failAt = 0 THEN "sleep" ELSE "idle"
    /\ eFailed' = (eFailed \/ failAt > 0)
    /\ eEvents' = <<>>
    /\ eNewCursor' = 0
    /\ eOffset' = 0
    /\ UNCHANGED <<eLog, eExists, eFromStart, eTicks, eAppends, eTruncated, eReplayed,
                   eRestarted>>
    /\ UNCHANGED nonLog

\* time.sleep returns: the next tick
LSleepNext ==
    /\ ePc = "sleep"
    /\ eTicks < MaxTicks
    /\ ePc' = "lock1"
    /\ UNCHANGED <<eLog, eExists, eCursor, eFromStart, eOffset, eEvents, eNewCursor,
                   eDelivered, eTicks, eAppends, eTruncated, eReplayed, eFailed,
                   eRestarted>>
    /\ UNCHANGED nonLog

\* the loop ends after a tick: --once, or KeyboardInterrupt during the sleep
LEnd ==
    /\ ePc = "sleep"
    /\ ePc' = "idle"
    /\ eFromStart' = FALSE
    /\ UNCHANGED <<eLog, eExists, eCursor, eOffset, eEvents, eNewCursor, eDelivered,
                   eTicks, eAppends, eTruncated, eReplayed, eFailed, eRestarted>>
    /\ UNCHANGED nonLog

LogNext ==
    \/ \E ln \in LogLines : LAppend(ln)
    \/ \E k \in 0..MaxAppends : LTruncate(k)
    \/ \E fs \in BOOLEAN : LStart(fs)
    \/ LRead
    \/ \E failAt \in 0..MaxAppends : LApply(failAt)
    \/ LSleepNext
    \/ LEnd

\* One call of read_events_since on any file and offset.
ReadInit ==
    /\ eLog \in Logs
    /\ eExists = TRUE
    /\ eOffset \in 0..MaxOffset
    /\ ePc = "call"
    /\ eCursor = 0
    /\ eFromStart = FALSE
    /\ eEvents = <<>>
    /\ eNewCursor = 0
    /\ eDelivered = <<>>
    /\ eTicks = 0
    /\ eAppends = 0
    /\ eTruncated = FALSE
    /\ eReplayed = FALSE
    /\ eFailed = FALSE
    /\ eRestarted = FALSE

ReadCall ==
    /\ ePc = "call"
    /\ LET r == ReadEventsSince(eExists, eLog, eOffset)
       IN  /\ eEvents' = r.events
           /\ eNewCursor' = r.new_offset
    /\ ePc' = "returned"
    /\ UNCHANGED <<eLog, eExists, eCursor, eFromStart, eOffset, eDelivered, eTicks,
                   eAppends, eTruncated, eReplayed, eFailed, eRestarted>>
    /\ UNCHANGED nonLog

\* ------------------------------------------------------------------------
\* state.py: the state file and its replacement (SpecFile)
\* ------------------------------------------------------------------------
MaxChunks == 2      \* write() calls write_text needs for the serialized state
MaxSaves == 3       \* saves started

Writers == {"w1", "w2"}
NoFile == [ver |-> -1, chunks |-> 0]

TmpInPlace(path) == path

\* tmp = p.with_suffix(".tmp")
TmpOf(path) == "state.tmp"

\* The file holds the whole serialization of one state.
Complete(f) == f # NoFile /\ f.chunks = MaxChunks

FileInit ==
    /\ files = [n \in {"state.json", "state.tmp"} |-> NoFile]
    /\ fLock = NoProc
    /\ fPc = [w \in Writers |-> "idle"]
    /\ fBase = [w \in Writers |-> 0]
    /\ fSeen = NoFile
    /\ fSaves = 0

\* locked_state: flock, then load_state_unlocked (an absent file is version 0)
FEnter(w) ==
    /\ fPc[w] = "idle"
    /\ fSaves < MaxSaves
    /\ ~LockHeld(fLock)
    /\ fLock' = w
    /\ fSaves' = fSaves + 1
    /\ fBase' = [fBase EXCEPT ![w] = IF files["state.json"] = NoFile THEN 0
                                     ELSE files["state.json"].ver]
    /\ fPc' = [fPc EXCEPT ![w] = "save"]
    /\ UNCHANGED <<files, fSeen>>
    /\ UNCHANGED nonFile

\* save_state_unlocked: write_text opens the temporary file, truncating it
FOpen(w) ==
    /\ fPc[w] = "save"
    /\ files' = [files EXCEPT ![TmpOf("state.json")] = [ver |-> fBase[w] + 1, chunks |-> 0]]
    /\ fPc' = [fPc EXCEPT ![w] = "write"]
    /\ UNCHANGED <<fLock, fBase, fSeen, fSaves>>
    /\ UNCHANGED nonFile

\* write_text writes the next part of the serialization
FWrite(w) ==
    /\ fPc[w] = "write"
    /\ files[TmpOf("state.json")].chunks < MaxChunks
    /\ files' = [files EXCEPT ![TmpOf("state.json")].chunks = @ + 1]
    /\ UNCHANGED <<fLock, fPc, fBase, fSeen, fSaves>>
    /\ UNCHANGED nonFile

\* tmp.replace(p): the rename
FReplace(w) ==
    /\ fPc[w] = "write"
    /\ files[TmpOf("state.json")].chunks = MaxChunks
    /\ files' = IF TmpOf("state.json") = "state.json" THEN files
             ELSE [files EXCEPT !["state.json"] = files[TmpOf("state.json")],
                             ![TmpOf("state.json")] = NoFile]
    /\ fPc' = [fPc EXCEPT ![w] = "unlock"]
    /\ UNCHANGED <<fLock, fBase, fSeen, fSaves>>
    /\ UNCHANGED nonFile

\* fcntl.flock(LOCK_UN)
FUnlock(w) ==
    /\ fPc[w] = "unlock"
    /\ fLock' = Released(w, FALSE)
    /\ fPc' = [fPc EXCEPT ![w] = "idle"]
    /\ UNCHANGED <<files, fBase, fSeen, fSaves>>
    /\ UNCHANGED nonFile

\* the writer is killed while saving: its lock is dropped with its file
\* descriptor, the temporary file stays as far as it was written
FKilled(w) ==
    /\ fPc[w] \in {"save", "write"}
    /\ fLock' = NoProc
    /\ fPc' = [fPc EXCEPT ![w] = "idle"]
    /\ UNCHANGED <<files, fBase, fSeen, fSaves>>
    /\ UNCHANGED nonFile

\* load_state: read state.json without the lock
FLoad ==
    /\ fSeen' = files["state.json"]
    /\ UNCHANGED <<files, fLock, fPc, fBase, fSaves>>
    /\ UNCHANGED nonFile

FileNext ==
    \/ \E w \in Writers : FEnter(w)
    \/ \E w \in Writers : FOpen(w)
    \/ \E w \in Writers : FWrite(w)
    \/ \E w \in Writers : FReplace(w)
    \/ \E w \in Writers : FUnlock(w)
    \/ \E w \in Writers : FKilled(w)
    \/ FLoad

\* ------------------------------------------------------------------------
\* globmatch: match_path over path and pattern segments (SpecGlob)
\* ------------------------------------------------------------------------
MaxDepth == 3       \* segments of a path
MaxPatLen == 3      \* segments of a pattern

\* Segments are sequences of characters.
SegA == <<"a">>
SegB == <<"b">>
SegCmd == <<"c", ".", "m", "d">>
Star == <<"*">>
DoubleStar == <<"*", "*">>
StarMd == <<"*", ".", "m", "d">>
Question == <<"?">>

PathSegs == {SegA, SegB, SegCmd}
PatSegs == PathSegs \cup {Star, DoubleStar, StarMd, Question}

Paths == UNION {[1..n -> PathSegs] : n \in 1..MaxDepth}
Patterns == UNION {[1..n -> PatSegs] : n \in 1..MaxPatLen}

RECURSIVE WildMatch(_, _, _, _)
\* Shell-style match of the segment s from position i against the pattern
\* segment p from position j: `*` is any run of characters, `?` is one.
WildMatch(s, i, p, j) ==
    IF j > Len(p) THEN i > Len(s)
    ELSE IF p[j] = "*" THEN \E k \in i..(Len(s) + 1) : WildMatch(s, k, p, j + 1)
    ELSE IF i > Len(s) THEN FALSE
    ELSE (p[j] = "?" \/ p[j] = s[i]) /\ WildMatch(s, i + 1, p, j + 1)

DoubleStarOneOrMore(path, i) == (i + 1)..(Len(path) + 1)

\* The positions at which the match may resume after a `**` segment that
\* started at segment i: it consumes zero or more whole segments.
DoubleStarSpan(path, i) == i..(Len(path) + 1)

IsAnyStar(seg) == seg \in {Star, DoubleStar}

\* Only the pattern segment `**` spans segments; `*` is an ordinary
\* wildcard segment.
IsDoubleStar(seg) == seg = DoubleStar

RECURSIVE MatchSegs(_, _, _, _)
\* Segment-wise match of path from segment i against pattern from segment j,
\* backtracking over the `**` positions.
MatchSegs(path, i, pattern, j) ==
    IF j > Len(pattern) THEN i > Len(path)
    ELSE IF IsDoubleStar(pattern[j])
         THEN \E k \in DoubleStarSpan(path, i) : MatchSegs(path, k, pattern, j + 1)
    ELSE IF i > Len(path) THEN FALSE
    ELSE WildMatch(path[i], 1, pattern[j], 1) /\ MatchSegs(path, i + 1, pattern, j + 1)

MatchPath(path, pattern) == MatchSegs(path, 1, pattern, 1)

GlobInit ==
    /\ gPath = <<SegA>>
    /\ gPattern = <<SegA>>
    /\ gResult = FALSE
    /\ gPc = "idle"

\* One call of match_path on any path and pattern.
GlobCallInit ==
    /\ gPath \in Paths
    /\ gPattern \in Patterns
    /\ gResult = FALSE
    /\ gPc = "call"

GMatch ==
    /\ gPc = "call"
    /\ gResult' = MatchPath(gPath, gPattern)
    /\ gPc' = "returned"
    /\ UNCHANGED <<gPath, gPattern>>
    /\ UNCHANGED nonGlob

\* ------------------------------------------------------------------------
\* contracts.py: the contract block of a task description
\*
\* A description is the sequence of its lines, a line a record of its kind,
\* its key and its text as characters.  The text of a value line is the
\* value as render_contract_toml writes it.  A word that is written as it
\* is ("core", "true", a task id) is one character.

Quote == "\""
Newline == "\n"
Backslash == "\\"
Space == " "

Chars == {"x", "n", Space, Quote, Newline, Backslash}

MaxStrLen == 2
MaxItemLen == 1

StrsUpTo(n) == UNION {[1..k -> Chars] : k \in 0..n}

\* The keys a raw table of the model has or lacks: one string field, one
\* list and one budget besides the schema and the flag, since the fields of
\* each group go through the same code.
ContractKeys == {"schema", "objective", "touch", "max_files", "auto_followups"}

\* A table: the keys it has and their values; a key it lacks keeps the
\* value it has here.
NoTable ==
    [keys |-> {}, schema |-> 0, mode |-> <<>>, objective |-> <<>>,
     non_goals |-> <<>>, touch |-> <<>>, acceptance |-> <<>>,
     max_files |-> 0, max_loc |-> 0, pit_stop_after |-> 0, auto_followups |-> FALSE]

TablePut(t, k, v) == [[t EXCEPT ![k] = v] EXCEPT !.keys = @ \cup {k}]

SchemaVals == {1, 2}
BudgetVals == {0, 25}
TouchVals == {<<>>} \cup {<<s>> : s \in StrsUpTo(MaxItemLen)}

TableOf(S, sch, obj, tch, mf, af) ==
    LET t1 == IF "schema" \in S THEN TablePut(NoTable, "schema", sch) ELSE NoTable
        t2 == IF "objective" \in S THEN TablePut(t1, "objective", obj) ELSE t1
        t3 == IF "touch" \in S THEN TablePut(t2, "touch", tch) ELSE t2
        t4 == IF "max_files" \in S THEN TablePut(t3, "max_files", mf) ELSE t3
    IN  IF "auto_followups" \in S THEN TablePut(t4, "auto_followups", af) ELSE t4

RawTables ==
    {TableOf(S, sch, obj, tch, mf, af) :
        S \in SUBSET ContractKeys, sch \in SchemaVals, obj \in StrsUpTo(MaxStrLen),
        tch \in TouchVals, mf \in BudgetVals, af \in BOOLEAN}

Line(kind, key, text) == [kind |-> kind, key |-> key, text |-> text]

FenceOpen == Line("open", "", <<>>)
FenceClose == Line("close", "", <<>>)
Blank == Line("text", "", <<>>)
Hello == Line("text", "", <<"x">>)
TailLine == Line("text", "", <<"n">>)

\* The block of the description in test_replace_contract_block.
OldBlock == <<FenceOpen, Line("kv", "schema", <<"1">>), FenceClose>>

Descriptions ==
    {pre \o blk \o post :
        pre \in {<<>>, <<Blank>>, <<Hello>>},
        blk \in {<<>>, OldBlock},
        post \in {<<>>, <<TailLine>>}}

NotQuote(c) == c # Quote

RECURSIVE LStripSpace(_)
LStripSpace(s) ==
    IF s # <<>> /\ Head(s) = Space THEN LStripSpace(Tail(s)) ELSE s

RECURSIVE RStripSpace(_)
RStripSpace(s) ==
    IF s # <<>> /\ s[Len(s)] = Space THEN RStripSpace(SubSeq(s, 1, Len(s) - 1)) ELSE s

\* toml_string: quotes removed, newlines made spaces, the ends stripped,
\* the rest written between quotes as it is.
StrippedOf(s) ==
    LET noq == SelectSeq(s, NotQuote)
        nonl == [i \in 1..Len(noq) |-> IF noq[i] = Newline THEN Space ELSE noq[i]]
    IN  RStripSpace(LStripSpace(nonl))

TomlString(s) == <<Quote>> \o StrippedOf(s) \o <<Quote>>

DigitChars == <<"0", "1", "2", "3", "4", "5", "6", "7", "8", "9">>

RECURSIVE NatText(_)
NatText(n) ==
    IF n < 10 THEN <<DigitChars[n + 1]>>
    ELSE NatText(n \div 10) \o <<DigitChars[(n % 10) + 1]>>

IntText(n) == IF n < 0 THEN <<"-">> \o NatText(0 - n) ELSE NatText(n)

TomlListStr(key, xs) ==
    <<Line("list", key, <<>>)>>
        \o [i \in 1..Len(xs) |-> Line("item", "", TomlString(xs[i]))]
        \o <<Line("end", "", <<>>)>>

RenderContractToml(raw) ==
    <<Line("kv", "schema", IntText(IF "schema" \in raw.keys THEN raw.schema ELSE 1))>>
        \o (IF "mode" \in raw.keys
            THEN <<Line("kv", "mode", TomlString(raw.mode))>> ELSE <<>>)
        \o (IF "objective" \in raw.keys
            THEN <<Line("kv", "objective", TomlString(raw.objective))>> ELSE <<>>)
        \o (IF "non_goals" \in raw.keys
            THEN TomlListStr("non_goals", raw.non_goals) ELSE <<>>)
        \o (IF "touch" \in raw.keys THEN TomlListStr("touch", raw.touch) ELSE <<>>)
        \o (IF "acceptance" \in raw.keys
            THEN TomlListStr("acceptance", raw.acceptance) ELSE <<>>)
        \o (IF "max_files" \in raw.keys
            THEN <<Line("kv", "max_files", IntText(raw.max_files))>> ELSE <<>>)
        \o (IF "max_loc" \in raw.keys
            THEN <<Line("kv", "max_loc", IntText(raw.max_loc))>> ELSE <<>>)
        \o (IF "pit_stop_after" \in raw.keys
            THEN <<Line("kv", "pit_stop_after", IntText(raw.pit_stop_after))>> ELSE <<>>)
        \o (IF "auto_followups" \in raw.keys
            THEN <<Line("kv", "auto_followups",
                        IF raw.auto_followups THEN <<"true">> ELSE <<"false">>)>>
            ELSE <<>>)

RenderContractBlock(raw) == <<FenceOpen>> \o RenderContractToml(raw) \o <<FenceClose>>

IsFence(l) == l.kind \in {"open", "close"}

\* _FENCE_RE.search: the first opening fence that has a body and a line of
\* three backticks after it, up to the first such line.
FenceCloses(desc, i) == {j \in (i + 2)..Len(desc) : IsFence(desc[j])}

FenceOpens(desc) ==
    {i \in 1..Len(desc) : desc[i].kind = "open" /\ FenceCloses(desc, i) # {}}

SetMin(S) == CHOOSE x \in S : \A y \in S : x <= y

FenceSearch(desc) ==
    IF FenceOpens(desc) = {} THEN [found |-> FALSE, from |-> 0, to |-> 0]
    ELSE LET i == SetMin(FenceOpens(desc))
         IN  [found |-> TRUE, from |-> i, to |-> SetMin(FenceCloses(desc, i))]

NoText == [ok |-> FALSE, text |-> <<>>]

Prepend(cs, r) == IF r.ok THEN [ok |-> TRUE, text |-> cs \o r.text] ELSE r

\* re.sub reads its replacement as a template: \n is a newline, \\ one
\* backslash, a backslash before any other letter is an error, and before
\* anything else it stays.
RECURSIVE TemplateExpand(_, _)
TemplateExpand(s, i) ==
    IF i > Len(s) THEN [ok |-> TRUE, text |-> <<>>]
    ELSE IF s[i] # Backslash THEN Prepend(<<s[i]>>, TemplateExpand(s, i + 1))
    ELSE IF i = Len(s) THEN NoText
    ELSE IF s[i + 1] = "n" THEN Prepend(<<Newline>>, TemplateExpand(s, i + 2))
    ELSE IF s[i + 1] = Backslash THEN Prepend(<<Backslash>>, TemplateExpand(s, i + 2))
    ELSE IF s[i + 1] = "x" THEN NoText
    ELSE Prepend(<<Backslash, s[i + 1]>>, TemplateExpand(s, i + 2))

ExpandLines(lines) ==
    IF \E i \in 1..Len(lines) : ~TemplateExpand(lines[i].text, 1).ok
    THEN [ok |-> FALSE, lines |-> <<>>]
    ELSE [ok |-> TRUE,
          lines |-> [i \in 1..Len(lines) |->
                        [lines[i] EXCEPT !.text = TemplateExpand(@, 1).text]]]

RECURSIVE LStripBlank(_)
LStripBlank(desc) ==
    IF desc # <<>> /\ Head(desc) = Blank THEN LStripBlank(Tail(desc)) ELSE desc

RECURSIVE RStripBlank(_)
RStripBlank(desc) ==
    IF desc # <<>> /\ desc[Len(desc)] = Blank
    THEN RStripBlank(SubSeq(desc, 1, Len(desc) - 1)) ELSE desc

ReplaceContractBlock(description, raw) ==
    LET new_block == RenderContractBlock(raw)
        m == FenceSearch(description)
    IN  IF m.found
        THEN LET e == ExpandLines(new_block)
             IN  IF ~e.ok THEN e
                 ELSE [ok |-> TRUE,
                       lines |-> LStripBlank(
                            SubSeq(description, 1, m.from - 1) \o e.lines
                                \o SubSeq(description, m.to + 1, Len(description)))]
        ELSE IF \E i \in 1..Len(description) : description[i] # Blank
        THEN [ok |-> TRUE, lines |-> new_block \o <<Blank>> \o description]
        ELSE [ok |-> TRUE, lines |-> new_block]

ExtractContract(description) ==
    LET m == FenceSearch(description)
    IN  IF ~m.found THEN [found |-> FALSE, body |-> <<>>]
        ELSE [found |-> TRUE,
              body |-> RStripBlank(LStripBlank(SubSeq(description, m.from + 1, m.to - 1)))]

NoValue == [ok |-> FALSE, val |-> <<>>]

\* A basic string of TOML: from the opening quote to the closing one, which
\* must end the value; \n, \\ and \" are escapes, a backslash before
\* anything else and a newline are errors.
RECURSIVE BasicStrFrom(_, _, _)
BasicStrFrom(s, i, acc) ==
    IF i > Len(s) THEN NoValue
    ELSE IF s[i] = Quote THEN (IF i = Len(s) THEN [ok |-> TRUE, val |-> acc] ELSE NoValue)
    ELSE IF s[i] = Newline THEN NoValue
    ELSE IF s[i] # Backslash THEN BasicStrFrom(s, i + 1, Append(acc, s[i]))
    ELSE IF i = Len(s) THEN NoValue
    ELSE IF s[i + 1] = "n" THEN BasicStrFrom(s, i + 2, Append(acc, Newline))
    ELSE IF s[i + 1] \in {Backslash, Quote} THEN BasicStrFrom(s, i + 2, Append(acc, s[i + 1]))
    ELSE NoValue

ParseBasicStr(s) ==
    IF s = <<>> \/ Head(s) # Quote THEN NoValue ELSE BasicStrFrom(s, 2, <<>>)

IsDigit(c) == \E d \in 1..10 : DigitChars[d] = c

DigitVal(c) == (CHOOSE d \in 1..10 : DigitChars[d] = c) - 1

RECURSIVE NatOf(_, _, _)
NatOf(s, i, acc) ==
    IF i > Len(s) THEN acc ELSE NatOf(s, i + 1, 10 * acc + DigitVal(s[i]))

ParseInt(s) ==
    LET digits == IF s # <<>> /\ Head(s) = "-" THEN Tail(s) ELSE s
    IN  IF digits = <<>> \/ \E i \in 1..Len(digits) : ~IsDigit(digits[i]) THEN NoValue
        ELSE [ok |-> TRUE,
              val |-> IF Head(s) = "-" THEN 0 - NatOf(digits, 1, 0) ELSE NatOf(digits, 1, 0)]

ParseValue(s) ==
    IF s = <<"true">> THEN [ok |-> TRUE, val |-> TRUE]
    ELSE IF s = <<"false">> THEN [ok |-> TRUE, val |-> FALSE]
    ELSE IF s # <<>> /\ Head(s) = Quote THEN ParseBasicStr(s)
    ELSE ParseInt(s)

NoParse == [ok |-> FALSE, table |-> NoTable]

\* The items of an array from line i on, up to the line that closes it.
RECURSIVE ParseItems(_, _, _)
ParseItems(body, i, acc) ==
    IF i > Len(body) THEN [ok |-> FALSE, val |-> acc, next |-> i]
    ELSE IF body[i].kind = "end" THEN [ok |-> TRUE, val |-> acc, next |-> i + 1]
    ELSE IF body[i].kind # "item" \/ ~ParseBasicStr(body[i].text).ok
         THEN [ok |-> FALSE, val |-> acc, next |-> i]
    ELSE ParseItems(body, i + 1, Append(acc, ParseBasicStr(body[i].text).val))

\* tomllib.loads on the lines of a body.
RECURSIVE ParseLines(_, _, _)
ParseLines(body, i, t) ==
    IF i > Len(body) THEN [ok |-> TRUE, table |-> t]
    ELSE IF body[i] = Blank THEN ParseLines(body, i + 1, t)
    ELSE IF body[i].kind = "kv"
         THEN LET v == ParseValue(body[i].text)
              IN  IF ~v.ok \/ body[i].key \in t.keys THEN NoParse
                  ELSE ParseLines(body, i + 1, TablePut(t, body[i].key, v.val))
    ELSE IF body[i].kind = "list"
         THEN LET items == ParseItems(body, i + 1, <<>>)
              IN  IF ~items.ok \/ body[i].key \in t.keys THEN NoParse
                  ELSE ParseLines(body, items.next, TablePut(t, body[i].key, items.val))
    ELSE NoParse

ParseContract(contract_text) == ParseLines(contract_text, 1, NoTable)

CodecInit ==
    /\ cText = <<>>
    /\ cRaw = NoTable
    /\ cOut = [ok |-> TRUE, lines |-> <<>>]
    /\ cParsed = NoParse
    /\ cPc = "idle"

\* One call of replace_contract_block on any description and raw table.
CodecCallInit ==
    /\ cText \in Descriptions
    /\ cRaw \in RawTables
    /\ cOut = [ok |-> TRUE, lines |-> <<>>]
    /\ cParsed = NoParse
    /\ cPc = "call"

\* test_replace_contract_block: replace, then extract and parse the result.
CReplace ==
    /\ cPc = "call"
    /\ cOut' = ReplaceContractBlock(cText, cRaw)
    /\ cParsed' =
            IF cOut'.ok /\ ExtractContract(cOut'.lines).found
            THEN ParseContract(ExtractContract(cOut'.lines).body)
            ELSE NoParse
    /\ cPc' = "done"
    /\ UNCHANGED <<cText, cRaw>>
    /\ UNCHANGED nonCodec

\* ------------------------------------------------------------------------
\* workgraph.py: rewrite_graph_with_contracts
\*
\* graph.jsonl is the sequence of its lines.  A line is blank, an object
\* that is no task, or a task; compact tells that the line is the output of
\* json.dumps(obj, separators=(",", ":")) rather than the text it had.

MaxGraphLines == 2
MaxRuns == 2

DEFAULT_NON_GOALS == <<<<"No fallbacks/retries/guardrails unless acceptance requires it">>>>

FormatDefaultContractBlock(mode, objective, touch) ==
    RenderContractBlock(
        [keys |-> {"schema", "mode", "objective", "non_goals", "touch", "acceptance",
                   "max_files", "max_loc", "pit_stop_after", "auto_followups"},
         schema |-> 1, mode |-> mode, objective |-> objective,
         non_goals |-> DEFAULT_NON_GOALS, touch |-> touch, acceptance |-> <<>>,
         max_files |-> 25, max_loc |-> 800, pit_stop_after |-> 3,
         auto_followups |-> TRUE])

BlankLine ==
    [kind |-> "blank", id |-> "", status |-> "", title |-> <<>>,
     description |-> <<>>, compact |-> FALSE]

OtherLine == [BlankLine EXCEPT !.kind = "other"]

GraphStatuses == {"open", "done"}
GraphTitles == {<<>>, <<Quote, Backslash>>}

\* Descriptions without a block, with a block, with a fence that is no block.
GraphDescriptions == {<<>>, <<Hello>>, OldBlock, <<Hello>> \o OldBlock, <<FenceOpen, FenceClose>>}

TaskLines ==
    {[kind |-> "task", id |-> id, status |-> status, title |-> title,
      description |-> d, compact |-> FALSE] :
        id \in Tasks, status \in GraphStatuses, title \in GraphTitles,
        d \in GraphDescriptions}

GraphLines == {BlankLine, OtherLine} \cup TaskLines

Graphs == UNION {[1..n -> GraphLines] : n \in 0..MaxGraphLines}

HasValidContract(desc) ==
    ExtractContract(desc).found /\ ParseContract(ExtractContract(desc).body).ok

\* extract_contract(desc) is not None
HasContract(desc) == ExtractContract(desc).found

\* Whether the loop rewrites the line.
Patched(line, statuses) ==
    /\ line.kind = "task"
    /\ line.status \in statuses
    /\ ~HasContract(line.description)

PatchLine(line) ==
    LET title == IF line.title # <<>> THEN line.title ELSE <<line.id>>
        contract_block == FormatDefaultContractBlock(<<"core">>, title, <<>>)
        desc == line.description
    IN  [line EXCEPT
            !.description =
                IF \E i \in 1..Len(desc) : desc[i] # Blank
                THEN contract_block \o <<Blank>> \o desc
                ELSE contract_block,
            !.compact = TRUE]

\* lines_out and updated of one run over lines_in.
LinesOut(lines_in, statuses) ==
    LET kept == SelectSeq(lines_in, LAMBDA l : l.kind # "blank")
    IN  [i \in 1..Len(kept) |->
            IF Patched(kept[i], statuses) THEN PatchLine(kept[i]) ELSE kept[i]]

UpdatedIds(lines_in, statuses) ==
    LET hit == SelectSeq(lines_in, LAMBDA l : Patched(l, statuses))
    IN  [i \in 1..Len(hit) |-> hit[i].id]

RewriteInit ==
    /\ rGraph = <<>>
    /\ rStatuses = {}
    /\ rTrace = <<>>

RewriteCallInit ==
    /\ rGraph \in Graphs
    /\ rStatuses \in SUBSET GraphStatuses
    /\ rTrace = <<>>

Rewrite(apply) ==
    /\ Len(rTrace) < MaxRuns
    /\ LET updated == UpdatedIds(rGraph, rStatuses)
           after == IF apply /\ updated # <<>> THEN LinesOut(rGraph, rStatuses) ELSE rGraph
       IN  /\ rGraph' = after
           /\ rTrace' = Append(rTrace, [apply |-> apply, updated |-> updated,
                                        before |-> rGraph, after |-> after])
    /\ UNCHANGED rStatuses
    /\ UNCHANGED nonRewrite

\* ------------------------------------------------------------------------
\* drift.py: compute_drift
\*
\* A changed file is a path as its segments, a finding its kind and its
\* severity, a recommendation its priority and its action.

MaxFindings == 2

NoBudget == -1

NoContract ==
    [given |-> FALSE, mode |-> "core", touch |-> <<>>,
     max_files |-> NoBudget, max_loc |-> NoBudget]

TaskContracts ==
    {[given |-> TRUE, mode |-> mode, touch |-> touch, max_files |-> mf, max_loc |-> ml] :
        mode \in {"core", "harden"}, touch \in {<<>>, <<<<SegA, DoubleStar>>>>},
        mf \in {NoBudget, 0, 2}, ml \in {NoBudget, 0}}

FileInScope == <<SegA, SegB>>
FileOutOfScope == <<SegB>>
FileDependency == <<<<"package.json">>>>
FileWorkgraph == <<<<".workgraph">>, SegA>>

FilesOrder == <<FileWorkgraph, FileInScope, FileOutOfScope, FileDependency>>

LinePlain == "x = 1"
LineRetry == "retry with fallback"
LineExcept == "except Exception:"

NoChanges == [given |-> FALSE, changed_files |-> <<>>, loc_changed |-> 0, added_lines |-> <<>>]

WorkingChanges ==
    {[given |-> TRUE,
      changed_files |-> SelectSeq(FilesOrder, LAMBDA p : p \in S),
      loc_changed |-> loc, added_lines |-> added] :
        S \in SUBSET {FilesOrder[i] : i \in 1..Len(FilesOrder)}, loc \in {0, 1},
        added \in {<<>>, <<LinePlain>>, <<LineRetry, LineExcept>>, <<LineRetry, LineRetry>>}}

_DEPENDENCY_FILES ==
    {<<<<n>>>> : n \in {"package.json", "package-lock.json", "pnpm-lock.yaml",
        "yarn.lock", "bun.lockb", "Cargo.toml", "Cargo.lock", "go.mod", "go.sum",
        "requirements.txt", "requirements-dev.txt", "pyproject.toml", "Pipfile",
        "Pipfile.lock", "poetry.lock", "Gemfile", "Gemfile.lock"}}

MatchAny(path, patterns) == \E i \in 1..Len(patterns) : MatchPath(path, patterns[i])

\* The first occurrence of each element, in order.
RECURSIVE DedupFrom(_, _, _)
DedupFrom(xs, i, out) ==
    IF i > Len(xs) THEN out
    ELSE IF \E k \in 1..Len(out) : out[k] = xs[i] THEN DedupFrom(xs, i + 1, out)
    ELSE DedupFrom(xs, i + 1, Append(out, xs[i]))

\* The signals of one added line, in the order the needles are tried.
SignalsOfLine(line) ==
    IF line = LineExcept THEN <<"broad exception handling">>
    ELSE IF line = LineRetry THEN <<"fallback", "retry">>
    ELSE <<>>

RECURSIVE SignalsFrom(_, _)
SignalsFrom(added_lines, i) ==
    IF i > Len(added_lines) THEN <<>>
    ELSE SignalsOfLine(added_lines[i]) \o SignalsFrom(added_lines, i + 1)

HardeningSignals(added_lines) == DedupFrom(SignalsFrom(added_lines, 1), 1, <<>>)

Finding(kind, severity) == [kind |-> kind, severity |-> severity]

DriftFiles(changes) ==
    IF changes.given
    THEN SelectSeq(changes.changed_files,
                   LAMBDA p : ~(Len(p) > 1 /\ Head(p) \in {<<".workgraph">>, <<".git">>}))
    ELSE <<>>

If(cond, finding) == IF cond THEN <<finding>> ELSE <<>>

FindingsOf(c, description, changes) ==
    LET drift_files == DriftFiles(changes)
        out_of_scope == SelectSeq(drift_files, LAMBDA p : ~MatchAny(p, c.touch))
        dep_files == SelectSeq(drift_files, LAMBDA p : p \in _DEPENDENCY_FILES)
    IN  IF ~c.given
        THEN IF ~ExtractContract(description).found
             THEN <<Finding("missing_contract", "warn")>>
             ELSE <<Finding("invalid_contract", "warn")>>
        ELSE IF c.mode # "core" THEN <<>>
        ELSE If(changes.given /\ c.touch # <<>> /\ out_of_scope # <<>>,
                Finding("scope_drift", "warn"))
            \o If(changes.given /\ dep_files # <<>>, Finding("dependency_drift", "warn"))
            \o If(changes.given /\ c.max_files # NoBudget
                    /\ Len(drift_files) > c.max_files,
                  Finding("churn_files", "warn"))
            \o If(changes.given /\ c.max_loc # NoBudget
                    /\ changes.loc_changed > c.max_loc,
                  Finding("churn_loc", "warn"))
            \o If(changes.given /\ HardeningSignals(changes.added_lines) # <<>>,
                  Finding("hardening_in_core", "warn"))

HasSeverity(findings, severity) ==
    \E i \in 1..Len(findings) : findings[i].severity = severity

ScoreWarnFirst(findings) ==
    IF HasSeverity(findings, "warn") THEN "yellow"
    ELSE IF HasSeverity(findings, "error") THEN "red"
    ELSE "green"

\* score = "green"; "yellow" if any warn; then "red" if any error
Score(findings) ==
    IF HasSeverity(findings, "error") THEN "red"
    ELSE IF HasSeverity(findings, "warn") THEN "yellow"
    ELSE "green"

Recommendation(priority, action) == [priority |-> priority, action |-> action]

ChurnKinds == {"churn_files", "churn_loc"}

\* The recommendation the loop appends for a finding of this kind; none for
\* a kind it does not know.
RecommendationsFor(kind) ==
    IF kind = "missing_contract"
    THEN <<Recommendation("high", "Add a wg-contract block to the task description")>>
    ELSE IF kind = "invalid_contract"
    THEN <<Recommendation("high", "Fix the wg-contract block TOML so it parses")>>
    ELSE IF kind = "scope_drift"
    THEN <<Recommendation("high", "Revert out-of-scope file changes or expand touch globs")>>
    ELSE IF kind = "hardening_in_core"
    THEN <<Recommendation("high", "Move guardrails/fallbacks into a harden follow-up task")>>
    ELSE IF kind = "dependency_drift"
    THEN <<Recommendation("medium",
                          "Confirm the dependency change is intentional; otherwise revert")>>
    ELSE IF kind \in ChurnKinds
    THEN <<Recommendation("medium",
                          "Split the task or adjust max_files/max_loc budgets in the contract")>>
    ELSE <<>>

RECURSIVE RecommendationsFrom(_, _)
RecommendationsFrom(findings, i) ==
    IF i > Len(findings) THEN <<>>
    ELSE RecommendationsFor(findings[i].kind) \o RecommendationsFrom(findings, i + 1)

RECURSIVE KeepUnseen(_, _, _)
KeepUnseen(recommendations, r, seen_actions) ==
    IF r > Len(recommendations) THEN <<>>
    ELSE IF recommendations[r].action \in seen_actions
         THEN KeepUnseen(recommendations, r + 1, seen_actions)
    ELSE <<recommendations[r]>>
            \o KeepUnseen(recommendations, r + 1,
                          seen_actions \cup {recommendations[r].action})

KeepAll(recommendations) == recommendations

\* De-dupe by action while preserving order.
DedupByAction(recommendations) == KeepUnseen(recommendations, 1, {})

ComputeDrift(c, description, changes) ==
    LET findings == FindingsOf(c, description, changes)
    IN  [score |-> Score(findings),
         findings |-> findings,
         recommendations |-> DedupByAction(RecommendationsFrom(findings, 1))]

NoReport == [score |-> "none", findings |-> <<>>, recommendations |-> <<>>]

SuppliedFindings ==
    UNION {[1..n -> {Finding("supplied", sev) : sev \in {"warn", "error"}}] :
                n \in 0..MaxFindings}

DriftInit ==
    /\ dContract = NoContract
    /\ dDescription = <<>>
    /\ dChanges = NoChanges
    /\ dReport = NoReport
    /\ dSupplied = <<>>
    /\ dSuppliedScore = "none"
    /\ dPc = [compute |-> "idle", score |-> "idle"]

\* One call of compute_drift on any contract, description and changes, and
\* the score rule on any list of findings.
DriftCallInit ==
    /\ dContract \in {NoContract} \cup TaskContracts
    /\ dDescription \in {<<Hello>>, OldBlock}
    /\ dChanges \in {NoChanges} \cup WorkingChanges
    /\ dReport = NoReport
    /\ dSupplied \in SuppliedFindings
    /\ dSuppliedScore = "none"
    /\ dPc = [compute |-> "call", score |-> "call"]

DCompute ==
    /\ dPc.compute = "call"
    /\ dReport' = ComputeDrift(dContract, dDescription, dChanges)
    /\ dPc' = [dPc EXCEPT !.compute = "done"]
    /\ UNCHANGED <<dContract, dDescription, dChanges, dSupplied, dSuppliedScore>>
    /\ UNCHANGED nonDrift

\* Lines 157-161 on a list of findings of any severities.
DScore ==
    /\ dPc.score = "call"
    /\ dSuppliedScore' = Score(dSupplied)
    /\ dPc' = [dPc EXCEPT !.score = "done"]
    /\ UNCHANGED <<dContract, dDescription, dChanges, dReport, dSupplied>>
    /\ UNCHANGED nonDrift

\* ------------------------------------------------------------------------
\* state.py: load_state_unlocked on a state file that is lost (SpecLoss)
\*
\* One process runs redirect ticks and check commands while state.json may
\* be deleted or overwritten with something that is no JSON object.

MaxRegions == 3
MaxLosses == 1
MaxLossLog == 2

StateForms == {"missing", "garbage", "array", "object"}

FileOf(state) == [form |-> "object", state |-> state]

LostFile(form) == [form |-> form, state |-> DefaultState]

\* What p.read_text and json.loads raise on the file.
RaisedBy(file) ==
    IF file.form = "missing" THEN "FileNotFoundError"
    ELSE IF file.form = "garbage" THEN "JSONDecodeError"
    ELSE "none"

CaughtIfMissing(exc) == exc = "FileNotFoundError"

\* except Exception: pass
Caught(exc) == TRUE

\* load_state_unlocked: the dict in the file, or the default
LoadStateUnlocked(file) ==
    IF RaisedBy(file) # "none"
    THEN [raised |-> ~Caught(RaisedBy(file)), state |-> DefaultState]
    ELSE IF file.form = "object" THEN [raised |-> FALSE, state |-> file.state]
    ELSE [raised |-> FALSE, state |-> DefaultState]

LossLogs == {lg \in Logs : Len(lg) <= MaxLossLog}

LossIdle ==
    /\ sFile = LostFile("missing")
    /\ sLog = <<>>
    /\ sPc = "idle"
    /\ sCmd = "none"
    /\ sState = DefaultState
    /\ sLoaded = DefaultState
    /\ sFromLoss = FALSE
    /\ sOffset = 0
    /\ sEvents = <<>>
    /\ sNewCursor = 0
    /\ sFailed = FALSE
    /\ sRegions = 0
    /\ sLosses = 0
    /\ sLostState = DefaultState

\* No state file yet, any event log.
LossInit ==
    /\ sFile = LostFile("missing")
    /\ sLog \in LossLogs
    /\ sPc = "idle"
    /\ sCmd = "none"
    /\ sState = DefaultState
    /\ sLoaded = DefaultState
    /\ sFromLoss = FALSE
    /\ sOffset = 0
    /\ sEvents = <<>>
    /\ sNewCursor = 0
    /\ sFailed = FALSE
    /\ sRegions = 0
    /\ sLosses = 0
    /\ sLostState = DefaultState

\* state.json is deleted, or overwritten with text that is no JSON or with
\* JSON that is no object
SLose(form) ==
    /\ sLosses < MaxLosses
    /\ form \in StateForms \ {"object"}
    /\ sFile.form = "object"
    /\ sFile' = LostFile(form)
    /\ sLostState' = sFile.state
    /\ sLosses' = sLosses + 1
    /\ UNCHANGED <<sLog, sPc, sCmd, sState, sLoaded, sFromLoss, sOffset, sEvents,
                   sNewCursor, sFailed, sRegions>>
    /\ UNCHANGED nonLoss

\* Where the process goes from a load: into the region, or out of the
\* command when load_state_unlocked raised.
AfterLoad(l, at) == IF l.raised THEN "idle" ELSE at

\* redirect, first region: the state is loaded, the events read since its
\* cursor
SRedirectRead ==
    /\ sPc = "idle"
    /\ sRegions < MaxRegions
    /\ sRegions' = sRegions + 1
    /\ LET l == LoadStateUnlocked(sFile)
           cursor == l.state.event_cursor
           r == ReadEventsSince(Len(sLog) > 0, sLog, cursor)
       IN  /\ sFailed' = (sFailed \/ l.raised)
           /\ sPc' = AfterLoad(l, "read")
           /\ sLoaded' = l.state
           /\ sState' = IF Len(r.events) = 0
                        THEN [l.state EXCEPT !.event_cursor = cursor] ELSE l.state
           /\ sOffset' = cursor
           /\ sEvents' = r.events
           /\ sNewCursor' = r.new_offset
           /\ sFromLoss' = (sFile.form # "object")
           /\ sCmd' = "redirect"
           /\ UNCHANGED <<sFile, sLog, sLosses, sLostState>>
    /\ UNCHANGED nonLoss

\* redirect, second region: the state is loaded again, the events applied
\* and the cursor set
SRedirectApply ==
    /\ sPc = "gap"
    /\ LET l == LoadStateUnlocked(sFile)
       IN  /\ sFailed' = (sFailed \/ l.raised)
           /\ sPc' = AfterLoad(l, "apply")
           /\ sLoaded' = l.state
           /\ sState' = [ApplyAll(CmdOf("redirect", FALSE), l.state, sEvents, 1)
                           EXCEPT !.event_cursor = sNewCursor]
           /\ sFromLoss' = (sFile.form # "object")
           /\ UNCHANGED <<sFile, sLog, sCmd, sOffset, sEvents, sNewCursor, sLosses,
                          sLostState>>
    /\ UNCHANGED sRegions
    /\ UNCHANGED nonLoss

\* check: the state is loaded and the report of the task applied
SCheck(findings) ==
    /\ sPc = "idle"
    /\ sRegions < MaxRegions
    /\ sRegions' = sRegions + 1
    /\ LET l == LoadStateUnlocked(sFile)
           item == [task_id |-> "t1", findings |-> findings, idx |-> 0]
       IN  /\ sFailed' = (sFailed \/ l.raised)
           /\ sPc' = AfterLoad(l, "check")
           /\ sLoaded' = l.state
           /\ sState' = ReportEffect(CmdOf("check", FALSE), l.state, item)
           /\ sFromLoss' = (sFile.form # "object")
           /\ sCmd' = "check"
           /\ sEvents' = <<item>>
           /\ UNCHANGED <<sFile, sLog, sOffset, sNewCursor, sLosses, sLostState>>
    /\ UNCHANGED nonLoss

InLossRegion(at) == at \in {"read", "apply", "check"}

\* finally: save_state_unlocked(wg_dir, state)
SExit ==
    /\ InLossRegion(sPc)
    /\ sFile' = FileOf(sState)
    /\ sPc' = IF sPc = "read" /\ Len(sEvents) > 0 THEN "gap" ELSE "idle"
    /\ UNCHANGED <<sLog, sCmd, sState, sLoaded, sFromLoss, sOffset, sEvents, sNewCursor,
                   sFailed, sRegions, sLosses, sLostState>>
    /\ UNCHANGED nonLoss

LossNext ==
    \/ \E form \in StateForms : SLose(form)
    \/ SRedirectRead
    \/ SRedirectApply
    \/ \E f \in FindingLists : SCheck(f)
    \/ SExit

Next ==
    \/ \E t \in Tracked, f \in FindingLists : MonitorAppend(t, f)
    \/ \E p \in Procs, name \in {"redirect", "watch"}, fs \in BOOLEAN :
            StartLoop(p, name, fs)
    \/ \E p \in Procs, t \in Tracked, f \in FindingLists : StartCheck(p, t, f)
    \/ \E p \in Procs : StartScan(p)
    \/ \E p \in Procs : LoadWorkgraph(p)
    \/ \E p \in Procs : LoopEnd(p)
    \/ \E p \in Procs : ReadEnter(p)
    \/ \E p \in Procs : ReadExit(p)
    \/ \E p \in Procs : EvalEnter(p)
    \/ \E p \in Procs, failAt \in 0..4 : ProcessReport(p, failAt)
    \/ \E p \in Procs : EvalExit(p)
    \/ \E p \in Procs : FailExit(p)

\* The pure functions before any call.
PureIdle == CodecInit /\ RewriteInit /\ DriftInit /\ LossIdle

Init == UnitInit /\ OInit /\ LogInit /\ FileInit /\ GlobInit /\ PureIdle

Spec == Init /\ [][Next]_vars

\* Scheduling: flock grants the lock to a process that keeps waiting for it,
\* and a process inside a region runs on to its exit.
Fairness ==
    \A p \in Procs :
        /\ SF_vars(ReadEnter(p))
        /\ SF_vars(EvalEnter(p))
        /\ WF_vars(ReadExit(p))
        /\ WF_vars(\E failAt \in 0..4 : ProcessReport(p, failAt))
        /\ WF_vars(EvalExit(p))
        /\ WF_vars(FailExit(p))

\* The commands on one task with one contract and one kind of report from
\* the monitor and from check, for the progress properties.
InitLive ==
    /\ Init
    /\ contract = [t \in Tracked |-> [pit_stop_after |-> 2, auto_followups |-> TRUE]]

NextLive ==
    \/ \E t \in Tracked : MonitorAppend(t, <<"scope_drift">>)
    \/ \E p \in Procs, name \in {"redirect", "watch"} : StartLoop(p, name, FALSE)
    \/ \E p \in Procs, t \in Tracked : StartCheck(p, t, <<"scope_drift">>)
    \/ \E p \in Procs : StartScan(p)
    \/ \E p \in Procs : LoadWorkgraph(p)
    \/ \E p \in Procs : LoopEnd(p)
    \/ \E p \in Procs : ReadEnter(p)
    \/ \E p \in Procs : ReadExit(p)
    \/ \E p \in Procs : EvalEnter(p)
    \/ \E p \in Procs, failAt \in 0..4 : ProcessReport(p, failAt)
    \/ \E p \in Procs : EvalExit(p)
    \/ \E p \in Procs : FailExit(p)

FairSpec == InitLive /\ [][NextLive]_vars /\ Fairness

\* The processes stay in their initial state while the state machine is
\* driven call by call.
InitUnit ==
    /\ UnitCallInit
    /\ OInit
    /\ LogInit
    /\ FileInit
    /\ GlobInit
    /\ PureIdle
    /\ contract = [t \in Tracked |-> [pit_stop_after |-> 2, auto_followups |-> TRUE]]

SpecUnit == InitUnit /\ [][UnitNext]_vars

\* The escalation state machine and the processes stay in their initial
\* state while the log and its consumer run.
InitIdle ==
    /\ UnitInit
    /\ OInit
    /\ contract = [t \in Tracked |-> [pit_stop_after |-> 2, auto_followups |-> TRUE]]

InitLog == InitIdle /\ LogInit /\ FileInit /\ GlobInit /\ PureIdle

SpecLog == InitLog /\ [][LogNext]_vars

InitRead == InitIdle /\ ReadInit /\ FileInit /\ GlobInit /\ PureIdle

SpecRead == InitRead /\ [][ReadCall]_vars

InitFile == InitIdle /\ LogInit /\ FileInit /\ GlobInit /\ PureIdle

SpecFile == InitFile /\ [][FileNext]_vars

InitGlob == InitIdle /\ LogInit /\ FileInit /\ GlobCallInit /\ PureIdle

SpecGlob == InitGlob /\ [][GMatch]_vars

\* Everything but the pure functions in its initial state.
InitRest == InitIdle /\ LogInit /\ FileInit /\ GlobInit

InitCodec == InitRest /\ CodecCallInit /\ RewriteInit /\ DriftInit /\ LossIdle

SpecCodec == InitCodec /\ [][CReplace]_vars

InitRewrite == InitRest /\ CodecInit /\ RewriteCallInit /\ DriftInit /\ LossIdle

SpecRewrite == InitRewrite /\ [][\E apply \in BOOLEAN : Rewrite(apply)]_vars

InitDrift == InitRest /\ CodecInit /\ RewriteInit /\ DriftCallInit /\ LossIdle

InitLoss == InitRest /\ CodecInit /\ RewriteInit /\ DriftInit /\ LossInit

SpecLoss == InitLoss /\ [][LossNext]_vars

DriftNext == DCompute \/ DScore

SpecDrift == InitDrift /\ [][DriftNext]_vars

\* ------------------------------------------------------------------------
\* Properties of the escalation state machine (SpecUnit)
\* ------------------------------------------------------------------------
LastUpdateOf(t) == uCall.op = "update" /\ uCall.task_id = t

\* C2: from a task with no prior state and pit_stop_after = N > 0, the k-th
\* of k consecutive non-green update_task_state calls yields streak k, with
\* pit_stop_due false for k < N and true at k = N; a green call after the
\* run yields streak 0 and pit_stop_due false.
C2_StreakSequence ==
    \A t \in Tasks :
        /\ uPhase[t] = "run" =>
            /\ uState.tasks[t].streak = uRun[t]
            /\ LastUpdateOf(t) =>
                /\ uUpd.streak = uRun[t]
                /\ (uRun[t] < uN[t] => ~uUpd.pit_stop_due)
                /\ (uRun[t] = uN[t] => uUpd.pit_stop_due)
        /\ uPhase[t] = "closed" =>
            /\ uState.tasks[t].streak = 0
            /\ LastUpdateOf(t) => (uUpd.streak = 0 /\ ~uUpd.pit_stop_due)

\* Three non-green calls with pit_stop_after = 3, then the green call.
C2_Witness ==
    \E t \in Tasks :
        /\ uPhase[t] = "closed" /\ uRun[t] = 3 /\ LastUpdateOf(t)
        /\ uState.tasks[t].streak = 0

\* C8: once pit_stop_created is true for a task it stays true through every
\* later update_task_state and mark_pit_stop_created call.
C8_LatchOneWay ==
    [][\A t \in Tasks :
        (HasEntry(uState, t) /\ uState.tasks[t].pit_stop_created)
            => (HasEntry(uState', t) /\ uState'.tasks[t].pit_stop_created)]_uvars

\* A latched task was evaluated green afterwards and is still latched.
C8_Witness ==
    \E t \in Tasks :
        /\ uRearmed[t] /\ LastUpdateOf(t) /\ uCall.score = "green"
        /\ uState.tasks[t].pit_stop_created

\* C9 (as claimed): after a pit-stop was created and the task returned to
\* green, a later run of non-green evaluations whose streak reaches
\* pit_stop_after signals pit_stop_due again.
C9_RearmedPerEpisode ==
    \A t \in Tasks :
        (/\ LastUpdateOf(t) /\ uRearmed[t]
         /\ uCall.score # "green" /\ uCall.pit_stop_after > 0
         /\ uUpd.streak >= uCall.pit_stop_after)
            => uUpd.pit_stop_due

\* C10: after an update_task_state call whose score is green or whose
\* pit_stop_after is 0, the stored streak is 0 and pit_stop_due is false.
C10_ResetOnGreenOrDisabled ==
    \A t \in Tasks :
        (LastUpdateOf(t) /\ (uCall.score = "green" \/ uCall.pit_stop_after = 0))
            => (uState.tasks[t].streak = 0 /\ uUpd.streak = 0 /\ ~uUpd.pit_stop_due)

\* The reset acts on a task that was drifting with a streak of at least 2.
C10_Witness ==
    \E t \in Tasks :
        /\ LastUpdateOf(t) /\ uCall.pit_stop_after = 0 /\ uCall.score # "green"
        /\ uCalls >= 3 /\ uRun[t] >= 2
        /\ uState.tasks[t].streak = 0

\* ------------------------------------------------------------------------
\* Properties of the concurrent command loops (Spec)
\* ------------------------------------------------------------------------
InRegion(p) == pc[p] \in {"in1", "body", "failing"}

AtLock(p) == pc[p] \in {"lock1", "lock"}

\* C1: across any interleaving of redirect, check, scan and watch processes
\* that evaluate a task with follow-up creation enabled, at most one create
\* request for the task's pit-stop is made per drift episode (an unbroken
\* run of non-green evaluations).
C1_PitStopOncePerEpisode == \A t \in Tracked : episodePits[t] <= 1

\* A process whose graph snapshot lacks the pit-stop has evaluated the task
\* non-green past the threshold in the episode that created the pit-stop.
C1_Witness ==
    \E t \in Tracked, p \in Procs :
        /\ episodePits[t] = 1
        /\ pc[p] = "body" /\ pos[p] > Len(work[p])
        /\ PitId(t) \notin wgSnap[p]
        /\ HasEntry(st[p], t)
        /\ st[p].tasks[t].pit_stop_created
        /\ st[p].tasks[t].streak > PitStopAfterOf(contract[t])

\* C3 (as claimed): within one unbroken drift episode pit_stop_due is true
\* for at most one evaluation of the task.
C3_SignaledOncePerEpisode == \A t \in Tracked : episodeDue[t] <= 1

\* C4 (as claimed): a contract with pit_stop_after = 0 keeps the task's
\* streak at 0, and no pit-stop is signaled or created for it.
C4_ZeroDisablesEscalation ==
    \A t \in Tracked :
        contract[t].pit_stop_after = 0 =>
            /\ HasEntry(stateFile, t) => stateFile.tasks[t].streak = 0
            /\ episodeDue[t] = 0
            /\ addCalls[PitId(t)] = 0

\* C5 (as claimed): with two consumers running, and neither a failure nor a
\* replay from the start, no log entry is applied to the escalation state
\* more than once.
C5_EntryAppliedOnce ==
    (~faults /\ ~replays) => \A i \in 1..MaxLog : applied[i] <= 1

\* C6 (as claimed): a guarded iteration that fails midway persists either
\* the state it loaded or the state after all of its mutations.
C6_NoPartialSave == lastSave.failed => ~lastSave.partial

\* C7: at most one process is inside a locked_state region, it holds the
\* lock, and the state it loaded is still the persisted state, so its save
\* overwrites no other region's update.
C7_RegionsSerialized ==
    /\ Cardinality({p \in Procs : InRegion(p)}) <= 1
    /\ \A p \in Procs : InRegion(p) => (lock = p /\ loaded[p] = stateFile)

\* A process is inside a region that loaded what an earlier region
\* persisted, while another process waits for the lock.
C7_Witness ==
    \E p, q \in Procs :
        /\ p # q /\ InRegion(p) /\ AtLock(q)
        /\ loaded[p] # DefaultState

\* The next report of a redirect or watch process inside its region.
GatedItems ==
    {<<p, work[p][pos[p]]>> : p \in {q \in Procs : /\ pc[q] = "body"
                                                  /\ pos[q] <= Len(work[q])
                                                  /\ Gated(cmd[q])}}

\* C11 (as claimed): redirect and watch run a side effect for a report (log
\* summary, follow-up or pit-stop creation) only when its signature differs
\* from the one persisted for the task, or escalation became due on this
\* report and on no earlier report of the episode.
C11_ActsOnChangeOrNewlyDue ==
    \A x \in GatedItems :
        LET p == x[1]
            item == x[2]
        IN  StoreCalls(cmd[p], st[p], wgSnap[p], item) # <<>>
                => \/ SigChanged(st[p], item)
                   \/ /\ Upd(st[p], item).upd.pit_stop_due
                      /\ episodeDue[item.task_id] = 0

\* C12: for a task whose contract has auto_followups = false, no follow-up
\* and no pit-stop create request is ever made and none is in the store.
C12_NoCreationWhenDisabled ==
    \A t \in Tracked :
        ~contract[t].auto_followups =>
            \A id \in {PitId(t), HardenId(t), ScopeId(t)} :
                addCalls[id] = 0 /\ id \notin graph

\* A task with creation disabled was evaluated with findings and a due
\* pit-stop, and its streak is persisted past the threshold.
C12_Witness ==
    \E t \in Tracked :
        /\ ~contract[t].auto_followups
        /\ episodeDue[t] >= 1
        /\ HasEntry(stateFile, t)
        /\ stateFile.tasks[t].streak >= PitStopAfterOf(contract[t])
        /\ stateFile.tasks[t].kinds # <<>>

\* C13 (as claimed): over any sequence of triggers, also from processes that
\* loaded the task graph before taking the lock, at most one create request
\* per derived id reaches the task store.
C13_OneCreatePerId == \A id \in DerivedIds : addCalls[id] <= 1

\* C18: the lock is held only by a process inside a region, on every exit
\* path, and under fair scheduling every process that waits for the lock
\* eventually enters its region.
C18_LockReleasedAndGranted ==
    /\ [](\A p \in Procs : lock = p => InRegion(p))
    /\ \A p \in Procs : AtLock(p) ~> InRegion(p)

\* A process waits for the lock while the other process's region is ending
\* with an exception.
C18_Witness ==
    \E p, q \in Procs :
        /\ p # q /\ AtLock(p)
        /\ pc[q] = "failing" /\ lock = q

\* ------------------------------------------------------------------------
\* Properties of the event log and its consumer (SpecLog, SpecRead)
\* ------------------------------------------------------------------------
\* The positions of the well-formed lines of lg that start before offset c.
WellFormedBefore(lg, c) ==
    LET Before(i) == WellFormed(lg[i]) /\ OffsetOf(lg, i) < c
    IN  SelectSeq([i \in 1..Len(lg) |-> i], Before)

\* events holds exactly the well-formed lines of lg that start at or after
\* from, each once, in file order.
IsEntriesOf(events, lg, from) ==
    /\ \A k \in 1..Len(events) :
            LET i == events[k].idx
            IN  /\ i \in 1..Len(lg)
                /\ WellFormed(lg[i])
                /\ OffsetOf(lg, i) >= from
                /\ events[k].task_id = lg[i].task_id
                /\ events[k].findings = lg[i].findings
    /\ \A k \in 1..(Len(events) - 1) : events[k].idx < events[k + 1].idx
    /\ \A i \in 1..Len(lg) :
            (WellFormed(lg[i]) /\ OffsetOf(lg, i) >= from)
                => \E k \in 1..Len(events) : events[k].idx = i

\* C14 (as claimed): with a single consumer and no truncation, no entry is
\* delivered twice and the entries are delivered in append order.
C14_ExactlyOnceInOrder ==
    ~eTruncated =>
        \A i, j \in 1..Len(eDelivered) : i < j => eDelivered[i] < eDelivered[j]

\* C14 (amended): with a single consumer and no truncation, every
\* well-formed entry before the persisted cursor has been delivered; when
\* moreover no replay from the start was requested and no consumer iteration
\* raised, the entries delivered are exactly those before the cursor, each
\* once and in append order, also when appends interleave with the ticks.
C14_DeliveredUpToCursor ==
    ~eTruncated =>
        /\ \A i \in 1..Len(eLog) :
                (WellFormed(eLog[i]) /\ OffsetOf(eLog, i) < eCursor)
                    => \E k \in 1..Len(eDelivered) : eDelivered[k] = i
        /\ (~eReplayed /\ ~eFailed) => eDelivered = WellFormedBefore(eLog, eCursor)

\* Two ticks delivered entries, and a line appended during the second tick
\* waits behind the cursor.
C14_Witness ==
    /\ ~eTruncated /\ ~eReplayed /\ ~eFailed
    /\ ePc = "sleep" /\ eTicks >= 2
    /\ Len(eDelivered) >= 2
    /\ eCursor > 0 /\ eCursor < FileSize(eLog)
    /\ WellFormed(eLog[Len(eLog)])

\* C15: the persisted event cursor never decreases, except in a tick that
\* restarted from zero: replay from the start was requested, or the log was
\* truncated below the cursor.
C15_CursorMonotone == [][eCursor' < eCursor => eRestarted']_vars

\* A tick restarted from zero after a truncation, delivered the remaining
\* entry again and persisted the smaller end of file.
C15_Witness ==
    /\ eTruncated /\ eRestarted /\ ~eReplayed /\ ~eFailed
    /\ ePc = "sleep"
    /\ Len(eDelivered) >= 3
    /\ eCursor = FileSize(eLog) /\ eCursor > 0

\* C16: read_events_since with an offset greater than the size of the file
\* returns every well-formed entry of the file, in order, and the end of
\* the file as new offset.
C16_RestartBeyondSize ==
    (ePc = "returned" /\ eOffset > FileSize(eLog)) =>
        /\ IsEntriesOf(eEvents, eLog, 0)
        /\ eNewCursor = FileSize(eLog)

\* The offset is beyond a file that holds two entries and a malformed line.
C16_Witness ==
    /\ ePc = "returned" /\ eOffset > FileSize(eLog)
    /\ Len(eEvents) = 2 /\ Len(eLog) = 3
    /\ eNewCursor = FileSize(eLog)

C19_AtomicReplace ==
    /\ files["state.json"] = NoFile \/ Complete(files["state.json"])
    /\ fSeen = NoFile \/ Complete(fSeen)
    /\ \A w \in Writers :
            fPc[w] \in {"save", "write", "unlock"} =>
                \/ files["state.json"] = NoFile /\ fBase[w] = 0
                \/ files["state.json"] # NoFile /\ files["state.json"].ver \in {fBase[w], fBase[w] + 1}

\* An unlocked load read the previous state while a writer had the next
\* one partly written, after another writer was killed in mid-write.
C19_Witness ==
    \E w \in Writers :
        /\ fPc[w] = "write"
        /\ files["state.tmp"] # NoFile /\ files["state.tmp"].chunks = 1
        /\ fSeen = files["state.json"] /\ Complete(fSeen) /\ fSeen.ver = fBase[w]
        /\ fSaves = 3

\* ------------------------------------------------------------------------
\* Properties of the glob matcher (SpecGlob)
\* ------------------------------------------------------------------------
\* The pattern is the first n segments of the path followed by `**`.
PrefixThenDoubleStar(path, pattern) ==
    \E n \in 0..Len(path) :
        /\ Len(pattern) = n + 1
        /\ pattern[n + 1] = DoubleStar
        /\ \A k \in 1..n : pattern[k] = path[k]

\* C20: match(P, "**") is true for every path P; a pattern made of P's first
\* N segments followed by `**` matches P whatever its remaining depth; and
\* `a/**/c.md` and `**/c.md` both match `a/b/c.md`.
C20_DoubleStarMatches ==
    gPc = "returned" =>
        /\ gPattern = <<DoubleStar>> => gResult
        /\ PrefixThenDoubleStar(gPath, gPattern) => gResult
        /\ (/\ gPath = <<SegA, SegB, SegCmd>>
            /\ gPattern \in {<<SegA, DoubleStar, SegCmd>>, <<DoubleStar, SegCmd>>})
                => gResult

\* The whole path is the prefix and the `**` matches no segment at all.
C20_Witness ==
    /\ gPc = "returned" /\ gResult
    /\ gPath = <<SegA, SegCmd>>
    /\ gPattern = <<SegA, SegCmd, DoubleStar>>

\* C21: a pattern without `**` matches only paths with the same number of
\* segments, a `*` segment matching exactly one segment of any content:
\* with src, app, main.py and *.py written a, b, c.md and *.md, a/*.md does
\* not match a/b/c.md and a/b/*.md does.
C21_StarIsOneSegment ==
    (gPc = "returned" /\ \A k \in 1..Len(gPattern) : gPattern[k] # DoubleStar) =>
        /\ gResult => Len(gPath) = Len(gPattern)
        /\ (/\ Len(gPath) = Len(gPattern)
            /\ \A k \in 1..Len(gPattern) : gPattern[k] = Star \/ gPattern[k] = gPath[k])
                => gResult
        /\ (gPath = <<SegA, SegB, SegCmd>> /\ gPattern = <<SegA, StarMd>>) => ~gResult
        /\ (gPath = <<SegA, SegB, SegCmd>> /\ gPattern = <<SegA, SegB, StarMd>>) => gResult

\* a/*.md was matched against a/b/c.md and rejected.
C21_Witness ==
    /\ gPc = "returned" /\ ~gResult
    /\ gPath = <<SegA, SegB, SegCmd>>
    /\ gPattern = <<SegA, StarMd>>

\* ------------------------------------------------------------------------
\* The table the quoting rule lets one expect back from raw: the schema
\* always there, every string as toml_string strips it.
Canonical(raw) ==
    [raw EXCEPT !.keys = @ \cup {"schema"},
                !.schema = IF "schema" \in raw.keys THEN @ ELSE 1,
                !.mode = StrippedOf(@),
                !.objective = StrippedOf(@),
                !.non_goals = [i \in 1..Len(@) |-> StrippedOf(@[i])],
                !.touch = [i \in 1..Len(@) |-> StrippedOf(@[i])],
                !.acceptance = [i \in 1..Len(@) |-> StrippedOf(@[i])]]

NonBlank(desc) == SelectSeq(desc, LAMBDA l : l # Blank)

\* The lines before the first block and after it; all of a description
\* without a block counts as after.
OutsideOf(desc) ==
    LET m == FenceSearch(desc)
    IN  IF ~m.found THEN [before |-> <<>>, after |-> NonBlank(desc)]
        ELSE [before |-> NonBlank(SubSeq(desc, 1, m.from - 1)),
              after |-> NonBlank(SubSeq(desc, m.to + 1, Len(desc)))]

\* C22: for any description, with or without a contract block, and any raw
\* table of the documented fields, replace_contract_block returns a text
\* whose block parses to exactly the fields and values of raw (a string
\* read as the quoting rule writes it, the schema as its default when raw
\* has none), and the lines of text outside the first block are kept.
C22_RoundTrip ==
    cPc = "done" =>
        /\ cOut.ok
        /\ cParsed.ok
        /\ cParsed.table = Canonical(cRaw)
        /\ OutsideOf(cOut.lines) = OutsideOf(cText)

\* ------------------------------------------------------------------------
\* C23: rewrite_graph_with_contracts is idempotent: the run that follows a
\* run with apply = true on the same status set returns no updated task and
\* leaves graph.jsonl as it was.
C23_SecondRunChangesNothing ==
    \A k \in 2..Len(rTrace) :
        rTrace[k - 1].apply =>
            /\ rTrace[k].updated = <<>>
            /\ rTrace[k].after = rTrace[k].before

C23_Witness ==
    /\ Len(rTrace) = 2
    /\ rTrace[1].apply
    /\ rTrace[1].updated # <<>>
    /\ rTrace[1].after # rTrace[1].before
    /\ rTrace[2].apply
    /\ \E i \in 1..Len(rGraph) : rGraph[i].title = <<Quote, Backslash>> /\ rGraph[i].compact

\* ------------------------------------------------------------------------
\* C24: the score is green if and only if there is no finding, yellow with
\* a warn finding and no error finding, red with any error finding; and
\* every report compute_drift builds is green or yellow.
C24_ScoreBySeverity ==
    /\ dPc.score = "done" =>
        /\ dSuppliedScore = "green" <=> dSupplied = <<>>
        /\ (HasSeverity(dSupplied, "warn") /\ ~HasSeverity(dSupplied, "error"))
                => dSuppliedScore = "yellow"
        /\ HasSeverity(dSupplied, "error") => dSuppliedScore = "red"
    /\ dPc.compute = "done" =>
        /\ dReport.score = "green" <=> dReport.findings = <<>>
        /\ dReport.findings # <<>> => dReport.score = "yellow"
        /\ dReport.score \in {"green", "yellow"}

C24_Witness ==
    /\ dPc.score = "done"
    /\ dSuppliedScore = "red"
    /\ HasSeverity(dSupplied, "warn")
    /\ dPc.compute = "done"
    /\ dReport.score = "yellow"
    /\ Len(dReport.findings) = 5

\* ------------------------------------------------------------------------
\* The recommendations of a report that answer a finding of this kind.
AnswersTo(report, kind) ==
    {r \in 1..Len(report.recommendations) :
        \E q \in 1..Len(RecommendationsFor(kind)) :
            report.recommendations[r] = RecommendationsFor(kind)[q]}

\* The first finding of a report that a recommendation answers.
FirstFindingFor(report, r) ==
    SetMin({i \in 1..Len(report.findings) : r \in AnswersTo(report, report.findings[i].kind)})

\* C25: a report carries, for each kind of finding it has, exactly one
\* recommendation, no recommendation without a finding and no action text
\* twice, in the order in which the findings first call for them.
C25_OneRecommendationPerKind ==
    dPc.compute = "done" =>
        LET recs == dReport.recommendations
        IN  /\ \A i \in 1..Len(dReport.findings) :
                    Cardinality(AnswersTo(dReport, dReport.findings[i].kind)) = 1
            /\ \A r \in 1..Len(recs) :
                    \E i \in 1..Len(dReport.findings) :
                        r \in AnswersTo(dReport, dReport.findings[i].kind)
            /\ \A r1, r2 \in 1..Len(recs) : r1 # r2 => recs[r1].action # recs[r2].action
            /\ \A r1, r2 \in 1..Len(recs) :
                    r1 < r2 => FirstFindingFor(dReport, r1) < FirstFindingFor(dReport, r2)

C25_Witness ==
    /\ dPc.compute = "done"
    /\ \E i, j \in 1..Len(dReport.findings) :
            /\ dReport.findings[i].kind = "churn_files"
            /\ dReport.findings[j].kind = "churn_loc"
    /\ Len(dReport.findings) = 5
    /\ Len(dReport.recommendations) = 4
    /\ dReport.recommendations[4].priority = "high"

\* ------------------------------------------------------------------------
\* pit_stop_created of a task in a state dict.
Latched(state, t) == HasEntry(state, t) /\ state.tasks[t].pit_stop_created

\* C26: pit_stop_created is set for a task only when its pit-stop task is in
\* the task store, created by the process or found there; and once the
\* pit-stop task is in the store the latch is in the persisted state, or in
\* the state of the process that holds the lock and persists it when its
\* region exits, by return or by an exception.
C26_LatchedIffCreated ==
    \A t \in Tracked :
        /\ Latched(stateFile, t) => PitId(t) \in graph
        /\ \A p \in Procs : Latched(st[p], t) => PitId(t) \in graph
        /\ PitId(t) \in graph =>
                \/ Latched(stateFile, t)
                \/ \E p \in Procs : lock = p /\ InRegion(p) /\ Latched(st[p], t)

\* A region created the pit-stop, a later report of it failed, and the
\* latch is in the state file.
C26_Witness ==
    /\ lastSave.failed
    /\ lock = NoProc
    /\ addCalls[PitId("t1")] = 1
    /\ Latched(stateFile, "t1")
    /\ stateFile.event_cursor = 0
    /\ Len(log) = 2

\* ------------------------------------------------------------------------
\* The reports of a task that are not green: those in the log, and at most
\* the reports check, scan and watch computed.
NonGreenReports(t) ==
    Cardinality({i \in 1..Len(log) :
                    log[i].task_id = t /\ ScoreOf(log[i].findings) # "green"}) + evals

\* C27 (as claimed): a pit-stop is created for a task only after at least
\* pit_stop_after distinct non-green evaluations of it: no interleaving,
\* failure and restart, or replay counts one report twice and lets the
\* pit-stop be created with fewer reports than that.
C27_PitStopAfterDistinctReports ==
    \A t \in Tracked :
        addCalls[PitId(t)] > 0 => NonGreenReports(t) >= PitStopAfterOf(contract[t])

\* ------------------------------------------------------------------------
\* C28: update_task_state always writes the task's entry with the new score,
\* the new kinds and the new streak, whether pit_stop_due or not, and with
\* the pit_stop_created the entry had before (false when there was none).
C28_UpdateOverwrites ==
    [][\A t \in Tasks :
        (uCalls' = uCalls + 1 /\ uCall'.op = "update" /\ uCall'.task_id = t) =>
            /\ HasEntry(uState', t)
            /\ uState'.tasks[t].score = uCall'.score
            /\ uState'.tasks[t].kinds = uCall'.kinds
            /\ uState'.tasks[t].streak = uUpd'.streak
            /\ uState'.tasks[t].pit_stop_created = Latched(uState, t)]_vars

\* An update of t1 that is due wrote its entry, and an update of t2 that
\* was not due carried its latch over a green report.
C28_Witness ==
    /\ uCall.op = "update" /\ uCall.task_id = "t1"
    /\ uUpd.pit_stop_due
    /\ uState.tasks["t1"].streak = 2
    /\ uState.tasks["t1"].kinds = <<"scope_drift">>
    /\ Latched(uState, "t2")
    /\ uState.tasks["t2"].score = "green"

\* C29: update_task_state and mark_pit_stop_created for one task leave the
\* entry of every other task and the event cursor as they were, and
\* mark_pit_stop_created leaves the task's own score, kinds and streak as
\* they were (absent when the task had no entry).
C29_OtherTasksAndCursorKept ==
    [][uCalls' = uCalls + 1 =>
        LET a == uCall'.task_id
            before == IF HasEntry(uState, a) THEN uState.tasks[a]
                      ELSE [score |-> NoScore, kinds |-> <<>>, streak |-> NoStreak,
                            pit_stop_created |-> FALSE]
        IN  /\ uState'.event_cursor = uState.event_cursor
            /\ \A t \in Tasks \ {a} :
                    /\ HasEntry(uState', t) <=> HasEntry(uState, t)
                    /\ HasEntry(uState, t) => uState'.tasks[t] = uState.tasks[t]
            /\ uCall'.op = "mark" =>
                    /\ uState'.tasks[a].score = before.score
                    /\ uState'.tasks[a].kinds = before.kinds
                    /\ uState'.tasks[a].streak = before.streak]_vars

\* t1 was marked while it had a yellow entry and t2 an entry of its own,
\* with a cursor that is not 0.
C29_Witness ==
    /\ uCall.op = "mark" /\ uCall.task_id = "t1"
    /\ uState.event_cursor = 1
    /\ HasEntry(uState, "t2") /\ uState.tasks["t2"].streak = 2
    /\ uState.tasks["t1"].score = "yellow" /\ uState.tasks["t1"].streak = 1
    /\ Latched(uState, "t1")

\* ------------------------------------------------------------------------
\* The reports among events that are not green.
NonGreenIn(events) ==
    Cardinality({k \in 1..Len(events) : ScoreOf(events[k].findings) # "green"})

====
